---- MODULE Spec2Model ----
(***************************************************************************)
(* Starzix: bitboard Board (src/src/board.hpp), the accumulator-carrying   *)
(* Board (src/unnamed/part_001) and the iterative-deepening search         *)
(* (src/unnamed/part_003), as state machines.                              *)
(*                                                                         *)
(* A bitboard (u64) is the set of its set bits, i.e. a set of squares      *)
(* 0..63; & | ^ are intersection, union and symmetric difference.          *)
(***************************************************************************)
EXTENDS Integers, Sequences, FiniteSets, TLC

\* ------------------------------------------------------------------ types
WHITE == 0
BLACK == 1
Colors == {WHITE, BLACK}
oppColor(c) == 1 - c

PAWN == 0
KNIGHT == 1
BISHOP == 2
ROOK == 3
QUEEN == 4
KING == 5
NONE == 6
PieceTypes == PAWN..KING

Squares == 0..63
SQUARE_NONE == 255

squareFile(sq) == sq % 8
squareRank(sq) == sq \div 8
RANK_2 == 1
RANK_7 == 6

bitboard(sq) == {sq}
Xor(a, b) == (a \ b) \cup (b \ a)
lsb(bb) == CHOOSE x \in bb : \A y \in bb : x <= y

CASTLE_SHORT == 0
CASTLE_LONG == 1
CASTLING_MASKS == [c \in Colors |-> [k \in {CASTLE_SHORT, CASTLE_LONG} |->
    IF c = WHITE THEN (IF k = CASTLE_SHORT THEN {7} ELSE {0})
                 ELSE (IF k = CASTLE_SHORT THEN {63} ELSE {56})]]

\* [king destination] -> <<rookFrom, rookTo>>
CASTLING_ROOK_FROM_TO == [to \in Squares |->
    CASE to = 6 -> <<7, 5>>
      [] to = 2 -> <<0, 3>>
      [] to = 62 -> <<63, 61>>
      [] to = 58 -> <<56, 59>>
      [] OTHER -> <<to, to>>]

\* ------------------------------------------------------------------ moves
NULL_FLAG == 0
PAWN_FLAG == 1
KNIGHT_FLAG == 2
BISHOP_FLAG == 3
ROOK_FLAG == 4
QUEEN_FLAG == 5
KING_FLAG == 6
PAWN_TWO_UP_FLAG == 7
EN_PASSANT_FLAG == 8
CASTLING_FLAG == 9
KNIGHT_PROMOTION_FLAG == 10
BISHOP_PROMOTION_FLAG == 11
ROOK_PROMOTION_FLAG == 12
QUEEN_PROMOTION_FLAG == 13

Move(from, to, flag) == [from |-> from, to |-> to, flag |-> flag]
MOVE_NONE == Move(0, 0, NULL_FLAG)

\* Move::pieceType(): the moving piece, recovered from the flag
MovePieceType(m) ==
    CASE m.flag = NULL_FLAG -> NONE
      [] m.flag \in PAWN_FLAG..KING_FLAG -> m.flag - 1
      [] m.flag = CASTLING_FLAG -> KING
      [] OTHER -> PAWN

\* Move::promotion(): the promotion piece, recovered from the flag
MovePromotion(m) ==
    CASE m.flag = KNIGHT_PROMOTION_FLAG -> KNIGHT
      [] m.flag = BISHOP_PROMOTION_FLAG -> BISHOP
      [] m.flag = ROOK_PROMOTION_FLAG -> ROOK
      [] m.flag = QUEEN_PROMOTION_FLAG -> QUEEN
      [] OTHER -> NONE

\* ---------------------------------------------------------- attack tables
Abs(x) == IF x < 0 THEN -x ELSE x
Min(a, b) == IF a < b THEN a ELSE b
popcount(bb) == Cardinality(bb)
FileDist(a, b) == Abs(squareFile(a) - squareFile(b))
RankDist(a, b) == Abs(squareRank(a) - squareRank(b))

SameOrthogonal(a, b) == a # b /\ (squareFile(a) = squareFile(b) \/ squareRank(a) = squareRank(b))
SameDiagonal(a, b) == a # b /\ FileDist(a, b) = RankDist(a, b)

KnightTable == [sq \in Squares |->
    {t \in Squares : {FileDist(sq, t), RankDist(sq, t)} = {1, 2}}]
KingTable == [sq \in Squares |->
    {t \in Squares : t # sq /\ FileDist(sq, t) <= 1 /\ RankDist(sq, t) <= 1}]
PawnTable == [c \in Colors |-> [sq \in Squares |->
    {t \in Squares : FileDist(sq, t) = 1
                     /\ squareRank(t) = squareRank(sq) + (IF c = WHITE THEN 1 ELSE -1)}]]
DiagTable == [sq \in Squares |-> {t \in Squares : SameDiagonal(sq, t)}]
OrthTable == [sq \in Squares |-> {t \in Squares : SameOrthogonal(sq, t)}]

\* squares strictly between a and b on a shared rank, file or diagonal
BETWEEN == [a \in Squares |-> [b \in Squares |->
    IF SameOrthogonal(a, b) \/ SameDiagonal(a, b)
    THEN {t \in Squares : /\ t # a /\ t # b
                          /\ (SameOrthogonal(a, b) => (SameOrthogonal(a, t) /\ SameOrthogonal(t, b)))
                          /\ (SameDiagonal(a, b) => (SameDiagonal(a, t) /\ SameDiagonal(t, b)))
                          /\ FileDist(a, t) + FileDist(t, b) = FileDist(a, b)
                          /\ RankDist(a, t) + RankDist(t, b) = RankDist(a, b)}
    ELSE {}]]

\* the whole line through a and b, edge to edge, a and b included
LINE_THROUGH == [a \in Squares |-> [b \in Squares |->
    IF SameOrthogonal(a, b)
    THEN {t \in Squares : IF squareFile(a) = squareFile(b)
                          THEN squareFile(t) = squareFile(a)
                          ELSE squareRank(t) = squareRank(a)}
    ELSE IF SameDiagonal(a, b)
    THEN {t \in Squares :
            IF (squareFile(a) - squareFile(b)) = (squareRank(a) - squareRank(b))
            THEN squareFile(t) - squareRank(t) = squareFile(a) - squareRank(a)
            ELSE squareFile(t) + squareRank(t) = squareFile(a) + squareRank(a)}
    ELSE {}]]

pawnAttacks(sq, color) == PawnTable[color][sq]
knightAttacks(sq) == KnightTable[sq]
kingAttacks(sq) == KingTable[sq]
bishopAttacks(sq, occ) == {t \in DiagTable[sq] : BETWEEN[sq][t] \cap occ = {}}
rookAttacks(sq, occ) == {t \in OrthTable[sq] : BETWEEN[sq][t] \cap occ = {}}
queenAttacks(sq, occ) == bishopAttacks(sq, occ) \cup rookAttacks(sq, occ)

\* ---------------------------------------------------------- Zobrist keys
\* A u64 key is a set of bits; the random keys are independent generators,
\* each its own bit outside 0..63 (the castling bitboard uses bits 0..63).
ZOBRIST_COLOR == {999}
ZOBRIST_PIECES == [c \in Colors |-> [pt \in PieceTypes |-> [sq \in Squares |->
    {100 + c * 384 + pt * 64 + sq}]]]
ZOBRIST_FILES == [f \in 0..7 |-> {900 + f}]


\* ------------------------------------------------- Board (src/board.hpp)
Wrap8(x) == x % 256
Wrap16(x) == x % 65536

\* BoardState with its default member initialisers
BoardState == [colorToMove |-> WHITE,
               colorBitboards |-> [c \in Colors |-> {}],
               piecesBitboards |-> [pt \in PieceTypes |-> {}],
               castlingRights |-> {},
               enPassantSquare |-> SQUARE_NONE,
               pliesSincePawnOrCapture |-> 0,
               currentMoveCounter |-> 1,
               checkers |-> {},
               zobristHash |-> {},
               pawnsHash |-> {},
               nonPawnsHash |-> [c \in Colors |-> {}],
               lastMove |-> MOVE_NONE,
               captured |-> NONE]

sideToMove(s) == s.colorToMove
oppSide(s) == oppColor(s.colorToMove)
getBb(s, pt) == s.piecesBitboards[pt]
getBbColor(s, c) == s.colorBitboards[c]
getBb2(s, c, pt) == s.piecesBitboards[pt] \cap s.colorBitboards[c]
us(s) == getBbColor(s, sideToMove(s))
them(s) == getBbColor(s, oppSide(s))
occupancy(s) == getBbColor(s, WHITE) \cup getBbColor(s, BLACK)
isOccupied(s, sq) == (occupancy(s) \cap bitboard(sq)) # {}
inCheck(s) == s.checkers # {}

pieceTypeAt(s, sq) ==
    IF ~isOccupied(s, sq) THEN NONE
    ELSE IF \E pt \in PieceTypes : sq \in getBb(s, pt)
         THEN lsb({pt \in PieceTypes : sq \in getBb(s, pt)})
         ELSE NONE

kingSquareOf(s, c) == lsb(getBb2(s, c, KING))
kingSquare(s) == kingSquareOf(s, sideToMove(s))

updateHashes(s, color, pt, sq) ==
    LET key == ZOBRIST_PIECES[color][pt][sq] IN
    [s EXCEPT !.zobristHash = Xor(@, key),
              !.pawnsHash = IF pt = PAWN THEN Xor(@, key) ELSE @,
              !.nonPawnsHash = IF pt = PAWN THEN @ ELSE [@ EXCEPT ![color] = Xor(@, key)]]

placePiece(s, color, pt, sq) ==
    updateHashes([s EXCEPT !.colorBitboards = [@ EXCEPT ![color] = @ \cup bitboard(sq)],
                           !.piecesBitboards = [@ EXCEPT ![pt] = @ \cup bitboard(sq)]],
                 color, pt, sq)

\* removePiece that leaves the piece on its square
removePieceKeeps(s, color, pt, sq) == updateHashes(s, color, pt, sq)
removePiece(s, color, pt, sq) ==
    updateHashes([s EXCEPT !.colorBitboards = [@ EXCEPT ![color] = Xor(@, bitboard(sq))],
                           !.piecesBitboards = [@ EXCEPT ![pt] = Xor(@, bitboard(sq))]],
                 color, pt, sq)

isSquareAttackedOcc(s, sq, colorAttacking, occ) ==
    \/ (pawnAttacks(sq, oppColor(colorAttacking)) \cap getBb2(s, colorAttacking, PAWN)) # {}
    \/ (knightAttacks(sq) \cap getBb2(s, colorAttacking, KNIGHT)) # {}
    \/ (bishopAttacks(sq, occ)
          \cap (getBb2(s, colorAttacking, BISHOP) \cup getBb2(s, colorAttacking, QUEEN))) # {}
    \/ (rookAttacks(sq, occ)
          \cap (getBb2(s, colorAttacking, ROOK) \cup getBb2(s, colorAttacking, QUEEN))) # {}
    \/ (kingAttacks(sq) \cap getBb2(s, colorAttacking, KING)) # {}

isSquareAttacked(s, sq, colorAttacking) ==
    isSquareAttackedOcc(s, sq, colorAttacking, occupancy(s))

attackersOcc(s, sq, occ) ==
    LET bishopsQueens == getBb(s, BISHOP) \cup getBb(s, QUEEN)
        rooksQueens == getBb(s, ROOK) \cup getBb(s, QUEEN)
    IN (getBb2(s, BLACK, PAWN) \cap pawnAttacks(sq, WHITE))
       \cup (getBb2(s, WHITE, PAWN) \cap pawnAttacks(sq, BLACK))
       \cup (getBb(s, KNIGHT) \cap knightAttacks(sq))
       \cup (bishopsQueens \cap bishopAttacks(sq, occ))
       \cup (rooksQueens \cap rookAttacks(sq, occ))
       \cup (getBb(s, KING) \cap kingAttacks(sq))

attackers(s, sq) == attackersOcc(s, sq, occupancy(s))
\* a board that never reports a pinned piece
pinnedNone(s) == {}

pinned(s) ==
    LET ksq == kingSquare(s)
        theirBishopsQueens == them(s) \cap (getBb(s, BISHOP) \cup getBb(s, QUEEN))
        theirRooksQueens == them(s) \cap (getBb(s, ROOK) \cup getBb(s, QUEEN))
        potentialAttackers == (theirBishopsQueens \cap bishopAttacks(ksq, them(s)))
                              \cup (theirRooksQueens \cap rookAttacks(ksq, them(s)))
    IN UNION {IF Cardinality(us(s) \cap BETWEEN[a][ksq]) = 1
              THEN us(s) \cap BETWEEN[a][ksq] ELSE {} : a \in potentialAttackers}

\* the null move with the en-passant square left standing
makeNullMoveKeepsEnPassant(s0) ==
    LET s1 == [s0 EXCEPT !.lastMove = MOVE_NONE,
                         !.colorToMove = oppColor(s0.colorToMove),
                         !.zobristHash = Xor(@, ZOBRIST_COLOR)]
        s3 == [s1 EXCEPT !.pliesSincePawnOrCapture = Wrap8(@ + 1)]
        s4 == IF sideToMove(s3) = WHITE
              THEN [s3 EXCEPT !.currentMoveCounter = Wrap16(@ + 1)] ELSE s3
    IN [s4 EXCEPT !.captured = NONE]
\* the null-move branch of makeMove, applied to the pushed copy
makeNullMove(s0) ==
    LET s1 == [s0 EXCEPT !.lastMove = MOVE_NONE,
                         !.colorToMove = oppColor(s0.colorToMove),
                         !.zobristHash = Xor(@, ZOBRIST_COLOR)]
        s2 == IF s1.enPassantSquare # SQUARE_NONE
              THEN [s1 EXCEPT !.zobristHash = Xor(@, ZOBRIST_FILES[squareFile(s1.enPassantSquare)]),
                              !.enPassantSquare = SQUARE_NONE]
              ELSE s1
        s3 == [s2 EXCEPT !.pliesSincePawnOrCapture = Wrap8(@ + 1)]
        s4 == IF sideToMove(s3) = WHITE
              THEN [s3 EXCEPT !.currentMoveCounter = Wrap16(@ + 1)] ELSE s3
    IN [s4 EXCEPT !.captured = NONE]

\* the piece movement of makeMove (removePiece .. placePiece), on the copy
movePieces(s0, move) ==
    LET stm == sideToMove(s0)
        opp == oppSide(s0)
        from == move.from
        to == move.to
        promotion == MovePromotion(move)
        pieceType == MovePieceType(move)
        s1 == removePiece(s0, stm, pieceType, from)
    IN IF move.flag = CASTLING_FLAG
       THEN LET rft == CASTLING_ROOK_FROM_TO[to]
                a == placePiece(s1, stm, KING, to)
                b == removePiece(a, stm, ROOK, rft[1])
                c == placePiece(b, stm, ROOK, rft[2])
            IN [c EXCEPT !.captured = NONE]
       ELSE IF move.flag = EN_PASSANT_FLAG
       THEN LET capturedPieceSquare == IF stm = WHITE THEN to - 8 ELSE to + 8
                a == removePiece(s1, opp, PAWN, capturedPieceSquare)
                b == placePiece(a, stm, PAWN, to)
            IN [b EXCEPT !.captured = PAWN]
       ELSE LET cap == pieceTypeAt(s1, to)
                a == [s1 EXCEPT !.captured = cap]
                b == IF cap # NONE THEN removePiece(a, opp, cap, to) ELSE a
            IN placePiece(b, stm, IF promotion # NONE THEN promotion ELSE pieceType, to)

\* the castling-rights update without the clearing of the destination square
updateCastlingRightsFromOnly(s, move) ==
    LET stm == sideToMove(s)
        r0 == s.castlingRights
        r1 == IF MovePieceType(move) = KING
              THEN (r0 \ CASTLING_MASKS[stm][CASTLE_SHORT]) \ CASTLING_MASKS[stm][CASTLE_LONG]
              ELSE IF (bitboard(move.from) \cap r0) # {} THEN r0 \ bitboard(move.from) ELSE r0
    IN [s EXCEPT !.zobristHash = Xor(Xor(@, r0), r1), !.castlingRights = r1]
\* the castling-rights update of makeMove
updateCastlingRights(s, move) ==
    LET stm == sideToMove(s)
        from == move.from
        to == move.to
        r0 == s.castlingRights
        r1 == IF MovePieceType(move) = KING
              THEN (r0 \ CASTLING_MASKS[stm][CASTLE_SHORT]) \ CASTLING_MASKS[stm][CASTLE_LONG]
              ELSE IF (bitboard(from) \cap r0) # {} THEN r0 \ bitboard(from) ELSE r0
        r2 == IF (bitboard(to) \cap r1) # {} THEN r1 \ bitboard(to) ELSE r1
    IN [s EXCEPT !.zobristHash = Xor(Xor(@, r0), r2), !.castlingRights = r2]

\* the en-passant update with the new square left out of the hash
updateEnPassantUnhashed(s, move) ==
    LET stm == sideToMove(s)
        s1 == IF s.enPassantSquare # SQUARE_NONE
              THEN [s EXCEPT !.zobristHash = Xor(@, ZOBRIST_FILES[squareFile(s.enPassantSquare)]),
                             !.enPassantSquare = SQUARE_NONE]
              ELSE s
    IN IF move.flag = PAWN_TWO_UP_FLAG
       THEN [s1 EXCEPT !.enPassantSquare = IF stm = WHITE THEN move.to - 8 ELSE move.to + 8]
       ELSE s1

\* the en-passant update of makeMove
updateEnPassant(s, move) ==
    LET stm == sideToMove(s)
        s1 == IF s.enPassantSquare # SQUARE_NONE
              THEN [s EXCEPT !.zobristHash = Xor(@, ZOBRIST_FILES[squareFile(s.enPassantSquare)]),
                             !.enPassantSquare = SQUARE_NONE]
              ELSE s
    IN IF move.flag = PAWN_TWO_UP_FLAG
       THEN LET ep == IF stm = WHITE THEN move.to - 8 ELSE move.to + 8
            IN [s1 EXCEPT !.enPassantSquare = ep,
                          !.zobristHash = Xor(@, ZOBRIST_FILES[squareFile(ep)])]
       ELSE s1

\* the counters of makeMove, after the side to move has been flipped
updateCounters(s, move) ==
    LET s1 == IF MovePieceType(move) = PAWN \/ s.captured # NONE
              THEN [s EXCEPT !.pliesSincePawnOrCapture = 0]
              ELSE [s EXCEPT !.pliesSincePawnOrCapture = Wrap8(@ + 1)]
    IN IF sideToMove(s1) = WHITE
       THEN [s1 EXCEPT !.currentMoveCounter = Wrap16(@ + 1)] ELSE s1

\* makeMove that leaves the copied checkers as they were
makeMoveStateStaleCheckers(s, move) ==
    IF move = MOVE_NONE THEN makeNullMove(s)
    ELSE LET s0 == [s EXCEPT !.lastMove = move]
             s1 == movePieces(s0, move)
             s2 == updateCastlingRights(s1, move)
             s3 == updateEnPassant(s2, move)
             s4 == [s3 EXCEPT !.colorToMove = oppColor(s.colorToMove),
                              !.zobristHash = Xor(@, ZOBRIST_COLOR)]
         IN updateCounters(s4, move)
\* Board::makeMove applied to the copy of the current state
makeMoveState(s, move) ==
    IF move = MOVE_NONE THEN makeNullMove(s)
    ELSE LET s0 == [s EXCEPT !.lastMove = move]
             s1 == movePieces(s0, move)
             s2 == updateCastlingRights(s1, move)
             s3 == updateEnPassant(s2, move)
             s4 == [s3 EXCEPT !.colorToMove = oppColor(s.colorToMove),
                              !.zobristHash = Xor(@, ZOBRIST_COLOR)]
             s5 == updateCounters(s4, move)
         IN [s5 EXCEPT !.checkers = attackers(s5, kingSquare(s5)) \cap them(s5)]

\* Board::makeMove on the history: push the copy, then change it
makeMove(sts, move) == Append(sts, makeMoveState(sts[Len(sts)], move))

\* an undoMove that leaves the history as it is
undoMoveKeeps(sts) == sts

\* Board::undoMove on the history
undoMove(sts) == SubSeq(sts, 1, Len(sts) - 1)


\* ------------------------------------------------------- move generation
\* a bitboard's squares in poplsb order
RECURSIVE Asc(_)
Asc(bb) == IF bb = {} THEN <<>> ELSE <<lsb(bb)>> \o Asc(bb \ {lsb(bb)})

RECURSIVE Flat(_)
Flat(ss) == IF ss = <<>> THEN <<>> ELSE Head(ss) \o Flat(Tail(ss))

Range(q) == {q[i] : i \in 1..Len(q)}

\* addPromotions that emits the underpromotions whatever the flag says
addPromotionsAlways(sq, targetSquare, underpromotions) ==
    <<Move(sq, targetSquare, QUEEN_PROMOTION_FLAG),
      Move(sq, targetSquare, ROOK_PROMOTION_FLAG),
      Move(sq, targetSquare, BISHOP_PROMOTION_FLAG),
      Move(sq, targetSquare, KNIGHT_PROMOTION_FLAG)>>
addPromotions(sq, targetSquare, underpromotions) ==
    <<Move(sq, targetSquare, QUEEN_PROMOTION_FLAG)>>
    \o (IF underpromotions
        THEN <<Move(sq, targetSquare, ROOK_PROMOTION_FLAG),
               Move(sq, targetSquare, BISHOP_PROMOTION_FLAG),
               Move(sq, targetSquare, KNIGHT_PROMOTION_FLAG)>>
        ELSE <<>>)

\* the moves pseudolegalMoves emits for the pawn on sq
pawnMoves(s, sq, noisyOnly, underpromotions) ==
    LET stm == sideToMove(s)
        rank == squareRank(sq)
        pawnHasntMoved == (rank = RANK_2 /\ stm = WHITE) \/ (rank = RANK_7 /\ stm = BLACK)
        willPromote == (rank = RANK_2 /\ stm = BLACK) \/ (rank = RANK_7 /\ stm = WHITE)
        targets == Asc(pawnAttacks(sq, stm) \cap them(s))
        captures == Flat([i \in 1..Len(targets) |->
                        IF willPromote THEN addPromotions(sq, targets[i], underpromotions)
                        ELSE <<Move(sq, targets[i], PAWN_FLAG)>>])
        squareOneUp == IF stm = WHITE THEN sq + 8 ELSE sq - 8
        squareTwoUp == IF stm = WHITE THEN sq + 16 ELSE sq - 16
        pushes == IF isOccupied(s, squareOneUp) THEN <<>>
                  ELSE IF willPromote THEN addPromotions(sq, squareOneUp, underpromotions)
                  ELSE IF noisyOnly THEN <<>>
                  ELSE <<Move(sq, squareOneUp, PAWN_FLAG)>>
                       \o (IF pawnHasntMoved /\ ~isOccupied(s, squareTwoUp)
                           THEN <<Move(sq, squareTwoUp, PAWN_TWO_UP_FLAG)>> ELSE <<>>)
    IN captures \o pushes

\* the moves of the pieces of one type: every piece in poplsb order, every target
pieceMoves(pieces, Att(_), mask, flag) ==
    LET froms == Asc(pieces)
    IN Flat([i \in 1..Len(froms) |->
            LET tos == Asc(Att(froms[i]) \cap mask)
            IN [j \in 1..Len(tos) |-> Move(froms[i], tos[j], flag)]])

pseudolegalMoves(s, noisyOnly, underpromotions) ==
    LET stm == sideToMove(s)
        enemyColor == oppSide(s)
        occ == occupancy(s)
        ourPawns == getBb2(s, stm, PAWN)
        epPawns == IF s.enPassantSquare # SQUARE_NONE
                   THEN Asc(pawnAttacks(s.enPassantSquare, enemyColor) \cap ourPawns)
                   ELSE <<>>
        enPassant == [i \in 1..Len(epPawns) |-> Move(epPawns[i], s.enPassantSquare, EN_PASSANT_FLAG)]
        pawnSqs == Asc(ourPawns)
        pawns == Flat([i \in 1..Len(pawnSqs) |-> pawnMoves(s, pawnSqs[i], noisyOnly, underpromotions)])
        mask == IF noisyOnly THEN them(s) ELSE Squares \ us(s)
        KnightAtt(sq) == knightAttacks(sq)
        BishopAtt(sq) == bishopAttacks(sq, occ)
        RookAtt(sq) == rookAttacks(sq, occ)
        QueenAtt(sq) == queenAttacks(sq, occ)
        KingAtt(sq) == kingAttacks(sq)
        ksq == kingSquare(s)
        castling ==
            IF ~noisyOnly /\ ~inCheck(s)
            THEN (IF (s.castlingRights \cap CASTLING_MASKS[stm][CASTLE_SHORT]) # {}
                     /\ (occ \cap BETWEEN[ksq][ksq + 3]) = {}
                  THEN <<Move(ksq, ksq + 2, CASTLING_FLAG)>> ELSE <<>>)
                 \o (IF (s.castlingRights \cap CASTLING_MASKS[stm][CASTLE_LONG]) # {}
                        /\ (occ \cap BETWEEN[ksq][ksq - 4]) = {}
                     THEN <<Move(ksq, ksq - 2, CASTLING_FLAG)>> ELSE <<>>)
            ELSE <<>>
    IN enPassant \o pawns
       \o pieceMoves(getBb2(s, stm, KNIGHT), KnightAtt, mask, KNIGHT_FLAG)
       \o pieceMoves(getBb2(s, stm, BISHOP), BishopAtt, mask, BISHOP_FLAG)
       \o pieceMoves(getBb2(s, stm, ROOK), RookAtt, mask, ROOK_FLAG)
       \o pieceMoves(getBb2(s, stm, QUEEN), QueenAtt, mask, QUEEN_FLAG)
       \o pieceMoves({ksq}, KingAtt, mask, KING_FLAG)
       \o castling

isPseudolegalLegal(s, move, pinnedBb) ==
    LET from == move.from
        to == move.to
        opp == oppSide(s)
        ksq == kingSquare(s)
    IN IF move.flag = CASTLING_FLAG
       THEN IF to > from
            THEN ~isSquareAttacked(s, from + 1, opp) /\ ~isSquareAttacked(s, from + 2, opp)
            ELSE ~isSquareAttacked(s, from - 1, opp) /\ ~isSquareAttacked(s, from - 2, opp)
       ELSE IF move.flag = EN_PASSANT_FLAG
       THEN LET capturedSq == IF sideToMove(s) = WHITE THEN to - 8 ELSE to + 8
                occAfter == Xor(Xor(Xor(occupancy(s), bitboard(from)), bitboard(capturedSq)), bitboard(to))
                bishopsQueens == getBb(s, BISHOP) \cup getBb(s, QUEEN)
                rooksQueens == getBb(s, ROOK) \cup getBb(s, QUEEN)
                slidingAttackersTo == (bishopAttacks(ksq, occAfter) \cap bishopsQueens)
                                      \cup (rookAttacks(ksq, occAfter) \cap rooksQueens)
            IN (slidingAttackersTo \cap them(s)) = {}
       ELSE IF MovePieceType(move) = KING
       THEN ~isSquareAttackedOcc(s, to, opp, Xor(occupancy(s), bitboard(from)))
       ELSE IF Cardinality(s.checkers) > 1 THEN FALSE
       ELSE IF (pinnedBb \cap bitboard(from)) # {} /\ (LINE_THROUGH[from][to] \cap bitboard(ksq)) = {}
       THEN FALSE
       ELSE IF s.checkers # {}
       THEN (bitboard(to) \cap (BETWEEN[ksq][lsb(s.checkers)] \cup s.checkers)) # {}
       ELSE TRUE

\* ------------------------------------------------------------------ draws
\* mStates[i] for the 0-based index i of the code
At(sts, i) == sts[i + 1]

Max(a, b) == IF a > b THEN a ELSE b

\* the backward scan of isRepetition from index i, count matches seen at or below the root
RECURSIVE repetitionScan(_, _, _, _, _)
repetitionScan(sts, i, lo, rootStateIdx, count) ==
    IF i < lo THEN FALSE
    ELSE IF At(sts, i).zobristHash = sts[Len(sts)].zobristHash
    THEN IF i > rootStateIdx THEN TRUE
         ELSE IF count + 1 = 2 THEN TRUE
         ELSE repetitionScan(sts, i - 2, lo, rootStateIdx, count + 1)
    ELSE repetitionScan(sts, i - 2, lo, rootStateIdx, count)
\* isRepetition with the root one state too low
isRepetitionRootOff(sts, searchPly) ==
    LET cur == sts[Len(sts)] IN
    IF Len(sts) <= 4 \/ cur.pliesSincePawnOrCapture < 4 THEN FALSE
    ELSE LET stateIdxAfterPawnOrCapture == Max(0, Len(sts) - cur.pliesSincePawnOrCapture - 1)
             rootStateIdx == Len(sts) - searchPly - 2
         IN repetitionScan(sts, Len(sts) - 3, stateIdxAfterPawnOrCapture, rootStateIdx, 0)

isRepetition(sts, searchPly) ==
    LET cur == sts[Len(sts)] IN
    IF Len(sts) <= 4 \/ cur.pliesSincePawnOrCapture < 4 THEN FALSE
    ELSE LET stateIdxAfterPawnOrCapture == Max(0, Len(sts) - cur.pliesSincePawnOrCapture - 1)
             rootStateIdx == Len(sts) - searchPly - 1
         IN repetitionScan(sts, Len(sts) - 3, stateIdxAfterPawnOrCapture, rootStateIdx, 0)
\* isDraw with the 50-move rule one ply late
isDrawLate(sts, searchPly) ==
    LET cur == sts[Len(sts)]
        numPieces == Cardinality(occupancy(cur))
    IN IF cur.pliesSincePawnOrCapture > 100 THEN TRUE
       ELSE IF numPieces = 2 THEN TRUE
       ELSE IF numPieces = 3 /\ (getBb(cur, KNIGHT) # {} \/ getBb(cur, BISHOP) # {}) THEN TRUE
       ELSE isRepetition(sts, searchPly)

isDraw(sts, searchPly) ==
    LET cur == sts[Len(sts)]
        numPieces == Cardinality(occupancy(cur))
    IN IF cur.pliesSincePawnOrCapture >= 100 THEN TRUE
       ELSE IF numPieces = 2 THEN TRUE
       ELSE IF numPieces = 3 /\ (getBb(cur, KNIGHT) # {} \/ getBb(cur, BISHOP) # {}) THEN TRUE
       ELSE isRepetition(sts, searchPly)


\* -------------------------------------------------------------------- SEE
\* seePawnValue() .. seeQueenValue() of search_params.hpp; king and none are 0
SEE_PIECE_VALUES == [pt \in PAWN..NONE |->
    CASE pt = PAWN -> 100 [] pt = KNIGHT -> 300 [] pt = BISHOP -> 300
      [] pt = ROOK -> 500 [] pt = QUEEN -> 900 [] OTHER -> 0]

isCapture(s, move) == isOccupied(s, move.to) \/ move.flag = EN_PASSANT_FLAG

capturedPiece(s, move) == IF move.flag = EN_PASSANT_FLAG THEN PAWN ELSE pieceTypeAt(s, move.to)

\* popLeastValuable: the cheapest piece type of side among attackersBb
leastValuable(s, side, attackersBb) ==
    lsb({pt \in PieceTypes : (attackersBb \cap getBb2(s, side, pt)) # {}})

\* the while (true) loop of SEE; its value is the side left in us at the end
RECURSIVE seeLoop(_, _, _, _, _, _)
seeLoop(s, square, occ, att, side, score) ==
    LET ourAttackers == att \cap getBbColor(s, side) IN
    IF ourAttackers = {} THEN side
    ELSE LET next == leastValuable(s, side, ourAttackers)
             sq == lsb(ourAttackers \cap getBb2(s, side, next))
             occ1 == Xor(occ, bitboard(sq))
             bishopsQueens == getBb(s, BISHOP) \cup getBb(s, QUEEN)
             rooksQueens == getBb(s, ROOK) \cup getBb(s, QUEEN)
             att1 == IF next \in {PAWN, BISHOP, QUEEN}
                     THEN att \cup (bishopAttacks(square, occ1) \cap bishopsQueens) ELSE att
             att2 == IF next \in {ROOK, QUEEN}
                     THEN att1 \cup (rookAttacks(square, occ1) \cap rooksQueens) ELSE att1
             att3 == att2 \cap occ1
             score1 == 0 - score - 1 - SEE_PIECE_VALUES[next]
             side1 == oppColor(side)
             side2 == IF score1 >= 0 /\ next = KING /\ (att3 \cap getBbColor(s, side1)) # {}
                      THEN oppColor(side1) ELSE side1
         IN IF score1 >= 0 THEN side2
            ELSE seeLoop(s, square, occ1, att3, side2, score1)

\* Board::SEE(move, threshold)
SEE(s, move, threshold) ==
    LET promotion == MovePromotion(move)
        score0 == 0 - threshold + SEE_PIECE_VALUES[capturedPiece(s, move)]
                  + (IF promotion # NONE
                     THEN SEE_PIECE_VALUES[promotion] - SEE_PIECE_VALUES[PAWN] ELSE 0)
        next == IF promotion # NONE THEN promotion ELSE MovePieceType(move)
        score1 == score0 - SEE_PIECE_VALUES[next]
        occ == Xor(Xor(occupancy(s), bitboard(move.from)), bitboard(move.to))
    IN IF score0 < 0 THEN FALSE
       ELSE IF score1 >= 0 THEN TRUE
       ELSE sideToMove(s) # seeLoop(s, move.to, occ, attackersOcc(s, move.to, occ),
                                    oppSide(s), score1)
\* -------------------------------------------------------------------- FEN
\* A std::string is the sequence of its characters.
Digits == <<"0", "1", "2", "3", "4", "5", "6", "7", "8", "9">>
FileChars == <<"a", "b", "c", "d", "e", "f", "g", "h">>
UpperChars == {"P", "N", "B", "R", "Q", "K"}
isdigit(ch) == \E i \in 1..10 : Digits[i] = ch
charToInt(ch) == (CHOOSE i \in 1..10 : Digits[i] = ch) - 1
isupper(ch) == ch \in UpperChars
tolower(ch) ==
    CASE ch = "P" -> "p" [] ch = "N" -> "n" [] ch = "B" -> "b"
      [] ch = "R" -> "r" [] ch = "Q" -> "q" [] ch = "K" -> "k" [] OTHER -> ch
toupper(ch) ==
    CASE ch = "p" -> "P" [] ch = "n" -> "N" [] ch = "b" -> "B"
      [] ch = "r" -> "R" [] ch = "q" -> "Q" [] ch = "k" -> "K" [] OTHER -> ch

\* std::to_string of a non-negative integer
RECURSIVE to_string(_)
to_string(n) == IF n < 10 THEN <<Digits[n + 1]>>
                ELSE to_string(n \div 10) \o <<Digits[(n % 10) + 1]>>

\* std::stoi of a string of digits
RECURSIVE stoi(_)
stoi(str) == IF str = <<>> THEN 0
             ELSE stoi(SubSeq(str, 1, Len(str) - 1)) * 10 + charToInt(str[Len(str)])

\* splitString(str, ' ')
RECURSIVE splitString(_, _)
splitString(str, sep) ==
    IF \A i \in 1..Len(str) : str[i] # sep THEN <<str>>
    ELSE LET k == lsb({i \in 1..Len(str) : str[i] = sep})
         IN <<SubSeq(str, 1, k - 1)>> \o splitString(SubSeq(str, k + 1, Len(str)), sep)

strToSquare(str) ==
    (charToInt(str[2]) - 1) * 8 + ((CHOOSE i \in 1..8 : FileChars[i] = str[1]) - 1)

SQUARE_TO_STR == [sq \in Squares |-> <<FileChars[squareFile(sq) + 1], Digits[squareRank(sq) + 2]>>]

\* the piece-placement loop of Board(fen), from character i on
RECURSIVE parseRows(_, _, _, _, _)
parseRows(s, fenRows, i, currentRank, currentFile) ==
    IF i > Len(fenRows) THEN s
    ELSE LET thisChar == fenRows[i] IN
         IF thisChar = "/" THEN parseRows(s, fenRows, i + 1, currentRank - 1, 0)
         ELSE IF isdigit(thisChar)
         THEN parseRows(s, fenRows, i + 1, currentRank, currentFile + charToInt(thisChar))
         ELSE LET sq == currentRank * 8 + currentFile
                  color == IF isupper(thisChar) THEN WHITE ELSE BLACK
                  lower == tolower(thisChar)
                  pt == CASE lower = "p" -> PAWN [] lower = "n" -> KNIGHT
                          [] lower = "b" -> BISHOP [] lower = "r" -> ROOK
                          [] lower = "q" -> QUEEN [] OTHER -> KING
                  placed == placePiece(s, color, pt, sq)
              \* comparing the new state makes TLC place the piece before it reads on
              IN IF placed # s
                 THEN parseRows(placed, fenRows, i + 1, currentRank, currentFile + 1)
                 ELSE s

\* the castling-rights loop of Board(fen)
parseCastling(str) ==
    UNION {CASTLING_MASKS[IF isupper(str[i]) THEN WHITE ELSE BLACK]
                         [IF str[i] = "K" \/ str[i] = "k" THEN CASTLE_SHORT ELSE CASTLE_LONG]
           : i \in 1..Len(str)}

\* Board::Board(std::string fen): the one state of the new history
BoardFromFen(fenStr) ==
    LET fenSplit == splitString(fenStr, " ")
        stm == IF fenSplit[2] = <<"b">> THEN BLACK ELSE WHITE
        s0 == [BoardState EXCEPT !.colorToMove = stm,
                                 !.zobristHash = IF stm = BLACK THEN Xor(@, ZOBRIST_COLOR) ELSE @]
        s1 == parseRows(s0, fenSplit[1], 1, 7, 0)
        s2 == IF fenSplit[3] # <<"-">>
              THEN LET cr == parseCastling(fenSplit[3])
                   IN [s1 EXCEPT !.castlingRights = cr, !.zobristHash = Xor(@, cr)]
              ELSE s1
        s3 == IF fenSplit[4] # <<"-">>
              THEN LET ep == strToSquare(fenSplit[4])
                   IN [s2 EXCEPT !.enPassantSquare = ep,
                                 !.zobristHash = Xor(@, ZOBRIST_FILES[squareFile(ep)])]
              ELSE s2
        s4 == [s3 EXCEPT !.pliesSincePawnOrCapture =
                             IF Len(fenSplit) >= 5 THEN Wrap8(stoi(fenSplit[5])) ELSE 0,
                         !.currentMoveCounter =
                             IF Len(fenSplit) >= 6 THEN Wrap16(stoi(fenSplit[6])) ELSE 1]
    IN [s4 EXCEPT !.checkers = attackers(s4, kingSquare(s4)) \cap them(s4)]

\* one rank of Board::fen(), from file on
RECURSIVE fenRank(_, _, _, _)
fenRank(s, rank, file, emptySoFar) ==
    IF file > 7 THEN (IF emptySoFar > 0 THEN to_string(emptySoFar) ELSE <<>>)
    ELSE LET square == rank * 8 + file IN
         IF ~isOccupied(s, square) THEN fenRank(s, rank, file + 1, emptySoFar + 1)
         ELSE LET pt == pieceTypeAt(s, square)
                  piece == CASE pt = PAWN -> "p" [] pt = KNIGHT -> "n" [] pt = BISHOP -> "b"
                             [] pt = ROOK -> "r" [] pt = QUEEN -> "q" [] pt = KING -> "k"
                             [] OTHER -> "."
              IN (IF emptySoFar > 0 THEN to_string(emptySoFar) ELSE <<>>)
                 \o <<IF square \in getBbColor(s, WHITE) THEN toupper(piece) ELSE piece>>
                 \o fenRank(s, rank, file + 1, 0)

\* fen() that never writes the en-passant square
fenNoEnPassant(s) ==
    LET rows == Flat([k \in 1..8 |-> fenRank(s, 8 - k, 0, 0) \o <<"/">>])
        strCastlingRights ==
            (IF (s.castlingRights \cap CASTLING_MASKS[WHITE][CASTLE_SHORT]) # {} THEN <<"K">> ELSE <<>>)
            \o (IF (s.castlingRights \cap CASTLING_MASKS[WHITE][CASTLE_LONG]) # {} THEN <<"Q">> ELSE <<>>)
            \o (IF (s.castlingRights \cap CASTLING_MASKS[BLACK][CASTLE_SHORT]) # {} THEN <<"k">> ELSE <<>>)
            \o (IF (s.castlingRights \cap CASTLING_MASKS[BLACK][CASTLE_LONG]) # {} THEN <<"q">> ELSE <<>>)
    IN SubSeq(rows, 1, Len(rows) - 1)
       \o (IF sideToMove(s) = BLACK THEN <<" ", "b", " ">> ELSE <<" ", "w", " ">>)
       \o (IF strCastlingRights = <<>> THEN <<"-">> ELSE strCastlingRights)
       \o <<" ">>
       \o <<"-">>
       \o <<" ">> \o to_string(s.pliesSincePawnOrCapture)
       \o <<" ">> \o to_string(s.currentMoveCounter)

\* Board::fen()
fen(s) ==
    LET rows == Flat([k \in 1..8 |-> fenRank(s, 8 - k, 0, 0) \o <<"/">>])
        strCastlingRights ==
            (IF (s.castlingRights \cap CASTLING_MASKS[WHITE][CASTLE_SHORT]) # {} THEN <<"K">> ELSE <<>>)
            \o (IF (s.castlingRights \cap CASTLING_MASKS[WHITE][CASTLE_LONG]) # {} THEN <<"Q">> ELSE <<>>)
            \o (IF (s.castlingRights \cap CASTLING_MASKS[BLACK][CASTLE_SHORT]) # {} THEN <<"k">> ELSE <<>>)
            \o (IF (s.castlingRights \cap CASTLING_MASKS[BLACK][CASTLE_LONG]) # {} THEN <<"q">> ELSE <<>>)
    IN SubSeq(rows, 1, Len(rows) - 1)
       \o (IF sideToMove(s) = BLACK THEN <<" ", "b", " ">> ELSE <<" ", "w", " ">>)
       \o (IF strCastlingRights = <<>> THEN <<"-">> ELSE strCastlingRights)
       \o <<" ">>
       \o (IF s.enPassantSquare = SQUARE_NONE THEN <<"-">> ELSE SQUARE_TO_STR[s.enPassantSquare])
       \o <<" ">> \o to_string(s.pliesSincePawnOrCapture)
       \o <<" ">> \o to_string(s.currentMoveCounter)


\* ------------------------------------------ NNUE accumulator (nnue.hpp)
\* 128 in nnue.hpp; the updates are the same in every lane, so a few lanes are kept
HIDDEN_LAYER_SIZE == 2
Hidden == 1..HIDDEN_LAYER_SIZE

\* int16_t arithmetic
WrapI16(x) == ((x + 32768) % 65536) - 32768

\* nn.featureWeights[idx * HIDDEN_LAYER_SIZE + i] and nn.featureBiases[i]: a fixed net
featureWeights(idx, i) == ((idx * 31 + i * 17) % 201) - 100
featureBiases(i) == 3 * i - 1

\* struct NN: the element counts and element sizes of its four arrays, in file order
NN_COUNTS == <<768 * HIDDEN_LAYER_SIZE, HIDDEN_LAYER_SIZE, HIDDEN_LAYER_SIZE * 2, 1>>
NN_SIZES == <<2, 2, 1, 2>>
NET_BYTES == NN_COUNTS[1] * NN_SIZES[1] + NN_COUNTS[2] * NN_SIZES[2]
             + NN_COUNTS[3] * NN_SIZES[3] + NN_COUNTS[4] * NN_SIZES[4]

\* main() once uciLoop() runs on a whole net: file is the length of NET_FILE in
\* bytes (-1: no such file), offset the file position, read the number of
\* elements fread stored into each array of nn, exitCode -1 while running, fen the
\* argument of the last position command
Started == [file |-> NET_BYTES, offset |-> NET_BYTES, read |-> NN_COUNTS,
            stdout |-> <<>>, stderr |-> <<>>, exitCode |-> -1, fen |-> <<>>, pc |-> "uciLoop"]

\* Accumulator(): both perspectives start from the feature biases
Accumulator == [white |-> [i \in Hidden |-> featureBiases(i)],
                black |-> [i \in Hidden |-> featureBiases(i)]]

whiteIdx(color, pt, sq) == color * 384 + pt * 64 + sq
\* sq ^ 56 mirrors the rank
blackIdx(color, pt, sq) == (1 - color) * 384 + pt * 64 + ((7 - squareRank(sq)) * 8 + squareFile(sq))

activate(acc, color, pt, sq) ==
    [white |-> [i \in Hidden |-> WrapI16(acc.white[i] + featureWeights(whiteIdx(color, pt, sq), i))],
     black |-> [i \in Hidden |-> WrapI16(acc.black[i] + featureWeights(blackIdx(color, pt, sq), i))]]

deactivate(acc, color, pt, sq) ==
    [white |-> [i \in Hidden |-> WrapI16(acc.white[i] - featureWeights(whiteIdx(color, pt, sq), i))],
     black |-> [i \in Hidden |-> WrapI16(acc.black[i] - featureWeights(blackIdx(color, pt, sq), i))]]

\* ----------------------------- Board with accumulators (unnamed/part_001)
ZOBRIST_COLOR_ACC == [c \in Colors |-> {997 + c}]

BoardStateAcc == [colorToMove |-> NONE,
                  colorBitboard |-> [c \in Colors |-> {}],
                  piecesBitboards |-> [pt \in PieceTypes |-> {}],
                  castlingRights |-> {},
                  enPassantSquare |-> SQUARE_NONE,
                  pliesSincePawnOrCapture |-> 0,
                  currentMoveCounter |-> 1,
                  zobristHash |-> {},
                  inCheckCached |-> -1,
                  lastMove |-> MOVE_NONE]

occupancyAcc(s) == s.colorBitboard[WHITE] \cup s.colorBitboard[BLACK]

pieceTypeAtAcc(s, sq) ==
    IF \E pt \in PieceTypes : sq \in s.piecesBitboards[pt]
    THEN lsb({pt \in PieceTypes : sq \in s.piecesBitboards[pt]})
    ELSE NONE

colorAt(s, sq) ==
    IF sq \in s.colorBitboard[WHITE] THEN WHITE
    ELSE IF sq \in s.colorBitboard[BLACK] THEN BLACK
    ELSE NONE

placePieceAcc(s, color, pt, sq) ==
    [s EXCEPT !.colorBitboard = [@ EXCEPT ![color] = @ \cup bitboard(sq)],
              !.piecesBitboards = [@ EXCEPT ![pt] = @ \cup bitboard(sq)],
              !.zobristHash = Xor(@, ZOBRIST_PIECES[color][pt][sq])]

removePieceAcc(s, sq) ==
    LET color == colorAt(s, sq) IN
    IF color # NONE
    THEN LET pt == pieceTypeAtAcc(s, sq)
         IN [s EXCEPT !.colorBitboard = [@ EXCEPT ![color] = Xor(@, bitboard(sq))],
                      !.piecesBitboards = [@ EXCEPT ![pt] = Xor(@, bitboard(sq))],
                      !.zobristHash = Xor(@, ZOBRIST_PIECES[color][pt][sq])]
    ELSE s

isSquareAttackedAcc(s, sq, colorAttacking) ==
    LET bb(c, pt) == s.piecesBitboards[pt] \cap s.colorBitboard[c]
        occupied == occupancyAcc(s)
    IN \/ (pawnAttacks(sq, oppColor(colorAttacking)) \cap bb(colorAttacking, PAWN)) # {}
       \/ (knightAttacks(sq) \cap bb(colorAttacking, KNIGHT)) # {}
       \/ (bishopAttacks(sq, occupied)
             \cap (bb(colorAttacking, BISHOP) \cup bb(colorAttacking, QUEEN))) # {}
       \/ (rookAttacks(sq, occupied)
             \cap (bb(colorAttacking, ROOK) \cup bb(colorAttacking, QUEEN))) # {}
       \/ (kingAttacks(sq) \cap bb(colorAttacking, KING)) # {}

inCheckNoCache(s) ==
    isSquareAttackedAcc(s, lsb(s.piecesBitboards[KING] \cap s.colorBitboard[s.colorToMove]),
                        oppColor(s.colorToMove))

\* Board(fen) of part_001: one state, one accumulator with every piece activated
RECURSIVE parseRowsAcc(_, _, _, _, _)
parseRowsAcc(b, fenRows, i, currentRank, currentFile) ==
    IF i > Len(fenRows) THEN b
    ELSE LET thisChar == fenRows[i] IN
         IF thisChar = "/" THEN parseRowsAcc(b, fenRows, i + 1, currentRank - 1, 0)
         ELSE IF isdigit(thisChar)
         THEN parseRowsAcc(b, fenRows, i + 1, currentRank, currentFile + charToInt(thisChar))
         ELSE LET sq == currentRank * 8 + currentFile
                  color == IF isupper(thisChar) THEN WHITE ELSE BLACK
                  lower == tolower(thisChar)
                  pt == CASE lower = "p" -> PAWN [] lower = "n" -> KNIGHT
                          [] lower = "b" -> BISHOP [] lower = "r" -> ROOK
                          [] lower = "q" -> QUEEN [] OTHER -> KING
              IN parseRowsAcc([state |-> placePieceAcc(b.state, color, pt, sq),
                               accumulator |-> activate(b.accumulator, color, pt, sq)],
                              fenRows, i + 1, currentRank, currentFile + 1)

BoardFromFenAcc(fenStr) ==
    LET fenSplit == splitString(fenStr, " ")
        stm == IF fenSplit[2] = <<"b">> THEN BLACK ELSE WHITE
        s0 == [BoardStateAcc EXCEPT !.colorToMove = stm, !.zobristHash = ZOBRIST_COLOR_ACC[stm]]
        b1 == parseRowsAcc([state |-> s0, accumulator |-> Accumulator], fenSplit[1], 1, 7, 0)
        s1 == b1.state
        s2 == IF fenSplit[3] # <<"-">>
              THEN LET cr == parseCastling(fenSplit[3])
                   IN [s1 EXCEPT !.castlingRights = cr, !.zobristHash = Xor(@, cr)]
              ELSE s1
        s3 == IF fenSplit[4] # <<"-">>
              THEN LET ep == strToSquare(fenSplit[4])
                   IN [s2 EXCEPT !.enPassantSquare = ep,
                                 !.zobristHash = Xor(@, ZOBRIST_FILES[squareFile(ep)])]
              ELSE s2
        s4 == [s3 EXCEPT !.pliesSincePawnOrCapture =
                             IF Len(fenSplit) >= 5 THEN Wrap8(stoi(fenSplit[5])) ELSE 0,
                         !.currentMoveCounter =
                             IF Len(fenSplit) >= 6 THEN Wrap16(stoi(fenSplit[6])) ELSE 1]
    IN [states |-> <<s4>>, accumulators |-> <<b1.accumulator>>]

\* the null-move branch of part_001's makeMove, on the pushed copy
makeNullMoveAcc(s0) ==
    LET s1 == [s0 EXCEPT !.zobristHash = Xor(Xor(@, ZOBRIST_COLOR_ACC[s0.colorToMove]),
                                             ZOBRIST_COLOR_ACC[oppColor(s0.colorToMove)]),
                         !.colorToMove = oppColor(s0.colorToMove)]
        s2 == IF s1.enPassantSquare # SQUARE_NONE
              THEN [s1 EXCEPT !.zobristHash = Xor(@, ZOBRIST_FILES[squareFile(s1.enPassantSquare)]),
                              !.enPassantSquare = SQUARE_NONE]
              ELSE s1
        s3 == [s2 EXCEPT !.pliesSincePawnOrCapture = Wrap8(@ + 1)]
        s4 == IF s3.colorToMove = WHITE
              THEN [s3 EXCEPT !.currentMoveCounter = Wrap16(@ + 1)] ELSE s3
    IN [s4 EXCEPT !.lastMove = MOVE_NONE]

\* the piece movement of part_001's makeMove: <<state, captured, capturedPieceSquare>>
movePiecesAcc(s0, move) ==
    LET stm == s0.colorToMove
        to == move.to
        promotion == MovePromotion(move)
        pieceType == MovePieceType(move)
        s1 == removePieceAcc(s0, move.from)
    IN IF move.flag = CASTLING_FLAG
       THEN LET rft == CASTLING_ROOK_FROM_TO[to]
                a == placePieceAcc(s1, stm, KING, to)
                b == removePieceAcc(a, rft[1])
            IN <<placePieceAcc(b, stm, ROOK, rft[2]), NONE, to>>
       ELSE IF move.flag = EN_PASSANT_FLAG
       THEN LET capturedPieceSquare == IF stm = WHITE THEN to - 8 ELSE to + 8
                a == removePieceAcc(s1, capturedPieceSquare)
            IN <<placePieceAcc(a, stm, PAWN, to), PAWN, capturedPieceSquare>>
       ELSE LET cap == pieceTypeAtAcc(s1, to)
                a == IF cap # NONE THEN removePieceAcc(s1, to) ELSE s1
            IN <<placePieceAcc(a, stm, IF promotion # NONE THEN promotion ELSE pieceType, to),
                 cap, to>>

\* the accumulator update that leaves a captured piece activated
updateAccumulatorKeepsCaptured(acc, stm, move, captured, capturedPieceSquare) ==
    LET promotion == MovePromotion(move)
        pieceType == MovePieceType(move)
        a1 == deactivate(acc, stm, pieceType, move.from)
        a3 == activate(a1, stm, IF promotion # NONE THEN promotion ELSE pieceType, move.to)
    IN IF move.flag = CASTLING_FLAG
       THEN LET rft == CASTLING_ROOK_FROM_TO[move.to]
            IN activate(deactivate(a3, stm, ROOK, rft[1]), stm, ROOK, rft[2])
       ELSE a3

\* the accumulator update of part_001's makeMove, on the pushed copy
updateAccumulator(acc, stm, move, captured, capturedPieceSquare) ==
    LET promotion == MovePromotion(move)
        pieceType == MovePieceType(move)
        a1 == deactivate(acc, stm, pieceType, move.from)
        a2 == IF captured # NONE
              THEN deactivate(a1, oppColor(stm), captured, capturedPieceSquare) ELSE a1
        a3 == activate(a2, stm, IF promotion # NONE THEN promotion ELSE pieceType, move.to)
    IN IF move.flag = CASTLING_FLAG
       THEN LET rft == CASTLING_ROOK_FROM_TO[move.to]
            IN activate(deactivate(a3, stm, ROOK, rft[1]), stm, ROOK, rft[2])
       ELSE a3

\* the state update of part_001's makeMove after the legality test
finishMoveAcc(s, move, captured) ==
    LET stm == s.colorToMove
        r0 == s.castlingRights
        r1 == IF MovePieceType(move) = KING
              THEN (r0 \ CASTLING_MASKS[stm][CASTLE_SHORT]) \ CASTLING_MASKS[stm][CASTLE_LONG]
              ELSE IF (bitboard(move.from) \cap r0) # {} THEN r0 \ bitboard(move.from) ELSE r0
        r2 == IF (bitboard(move.to) \cap r1) # {} THEN r1 \ bitboard(move.to) ELSE r1
        s1 == [s EXCEPT !.zobristHash = Xor(Xor(@, r0), r2), !.castlingRights = r2]
        s2 == IF s1.enPassantSquare # SQUARE_NONE
              THEN [s1 EXCEPT !.zobristHash = Xor(@, ZOBRIST_FILES[squareFile(s1.enPassantSquare)]),
                              !.enPassantSquare = SQUARE_NONE]
              ELSE s1
        s3 == IF move.flag = PAWN_TWO_UP_FLAG
              THEN LET ep == IF stm = WHITE THEN move.to - 8 ELSE move.to + 8
                   IN [s2 EXCEPT !.enPassantSquare = ep,
                                 !.zobristHash = Xor(@, ZOBRIST_FILES[squareFile(ep)])]
              ELSE s2
        s4 == IF MovePieceType(move) = PAWN \/ captured # NONE
              THEN [s3 EXCEPT !.pliesSincePawnOrCapture = 0]
              ELSE [s3 EXCEPT !.pliesSincePawnOrCapture = Wrap8(@ + 1)]
        s5 == IF stm = BLACK THEN [s4 EXCEPT !.currentMoveCounter = Wrap16(@ + 1)] ELSE s4
    IN [s5 EXCEPT !.zobristHash = Xor(Xor(@, ZOBRIST_COLOR_ACC[stm]), ZOBRIST_COLOR_ACC[oppColor(stm)]),
                  !.colorToMove = oppColor(stm),
                  !.inCheckCached = -1,
                  !.lastMove = move]

\* Board::captured(move) of part_001
capturedAcc(s, move) ==
    IF move.flag = PAWN_TWO_UP_FLAG \/ move.flag = CASTLING_FLAG THEN NONE
    ELSE IF move.flag = EN_PASSANT_FLAG THEN PAWN
    ELSE pieceTypeAtAcc(s, move.to)

\* Board::zobristHashAfter(move) of part_001
zobristHashAfter(s, move) ==
    LET stm == s.colorToMove
        nstm == oppColor(stm)
        h0 == Xor(Xor(s.zobristHash, ZOBRIST_COLOR_ACC[stm]), ZOBRIST_COLOR_ACC[nstm])
        hashAfter == IF s.enPassantSquare # SQUARE_NONE
                     THEN Xor(h0, ZOBRIST_FILES[squareFile(s.enPassantSquare)])
                     ELSE h0
        from == move.from
        to == move.to
    IN IF move = MOVE_NONE THEN hashAfter
       ELSE IF move.flag = CASTLING_FLAG
       THEN LET rft == CASTLING_ROOK_FROM_TO[to]
            IN Xor(Xor(Xor(Xor(hashAfter, ZOBRIST_PIECES[stm][KING][from]),
                           ZOBRIST_PIECES[stm][KING][to]),
                       ZOBRIST_PIECES[stm][ROOK][rft[1]]),
                   ZOBRIST_PIECES[stm][ROOK][rft[2]])
       ELSE IF move.flag = EN_PASSANT_FLAG
       THEN LET capturedPawnSquare == IF stm = WHITE THEN to - 8 ELSE to + 8
            IN Xor(Xor(Xor(hashAfter, ZOBRIST_PIECES[stm][PAWN][from]),
                       ZOBRIST_PIECES[stm][PAWN][to]),
                   ZOBRIST_PIECES[nstm][PAWN][capturedPawnSquare])
       ELSE IF move.flag = PAWN_TWO_UP_FLAG
       THEN Xor(Xor(Xor(hashAfter, ZOBRIST_PIECES[stm][PAWN][from]),
                    ZOBRIST_PIECES[stm][PAWN][to]),
                ZOBRIST_FILES[squareFile(to)])
       ELSE LET captured == capturedAcc(s, move)
                h1 == IF captured # NONE
                      THEN Xor(hashAfter, ZOBRIST_PIECES[nstm][captured][to])
                      ELSE hashAfter
                pieceType == MovePieceType(move)
                promotion == MovePromotion(move)
                place == IF promotion = NONE THEN pieceType ELSE promotion
            IN Xor(Xor(h1, ZOBRIST_PIECES[stm][pieceType][from]),
                   ZOBRIST_PIECES[stm][place][to])
\* a rejection that leaves the state with the pieces moved on the history
rejectMoveKeeps(sts) == sts

\* lines 530-531: the state pushed for the move is popped again
rejectMove(sts) == SubSeq(sts, 1, Len(sts) - 1)

\* Board::makeMove(move, verifyLegality) of part_001: [board, ok]
makeMoveAcc(b, move, verifyLegality) ==
    LET top == b.states[Len(b.states)]
        pushed == Append(b.states, top)
    IN
    IF move = MOVE_NONE
    THEN [board |-> [b EXCEPT !.states = Append(@, makeNullMoveAcc(top))], ok |-> TRUE]
    ELSE LET mp == movePiecesAcc(pushed[Len(pushed)], move) IN
         IF verifyLegality /\ inCheckNoCache(mp[1])
         THEN [board |-> [b EXCEPT !.states = rejectMove([pushed EXCEPT ![Len(pushed)] = mp[1]])],
               ok |-> FALSE]
         ELSE [board |-> [states |-> Append(b.states, finishMoveAcc(mp[1], move, mp[2])),
                          accumulators |-> Append(b.accumulators,
                               updateAccumulator(b.accumulators[Len(b.accumulators)],
                                                 top.colorToMove, move, mp[2], mp[3]))],
               ok |-> TRUE]
\* undoMove of part_001 that leaves the accumulator stack alone
undoMoveAccKeeps(b) ==
    [states |-> SubSeq(b.states, 1, Len(b.states) - 1),
     accumulators |-> b.accumulators]

\* Board::undoMove of part_001
undoMoveAcc(b) ==
    [states |-> SubSeq(b.states, 1, Len(b.states) - 1),
     accumulators |-> IF b.states[Len(b.states)].lastMove # MOVE_NONE
                      THEN SubSeq(b.accumulators, 1, Len(b.accumulators) - 1)
                      ELSE b.accumulators]


\* ------------------------------------------------------ start positions
\* 3rk3/8/8/8/8/8/8/4K2R w K - 0 1
FEN_CASTLE ==
    <<"3", "r", "k", "3", "/", "8", "/", "8", "/", "8", "/", "8", "/", "8", "/", "8", "/", "4", "K", "2", "R", " ", "w", " ", "K", " ", "-", " ", "0", " ", "1">>
\* 8/8/8/8/1R2Pp1k/8/8/4K3 b - e3 0 1
FEN_EP_PIN ==
    <<"8", "/", "8", "/", "8", "/", "8", "/", "1", "R", "2", "P", "p", "1", "k", "/", "8", "/", "8", "/", "4", "K", "3", " ", "b", " ", "-", " ", "e", "3", " ", "0", " ", "1">>
\* 1n2k3/P7/8/8/5p2/8/4P3/4K3 w - - 0 1
FEN_PAWNS ==
    <<"1", "n", "2", "k", "3", "/", "P", "7", "/", "8", "/", "8", "/", "5", "p", "2", "/", "8", "/", "4", "P", "3", "/", "4", "K", "3", " ", "w", " ", "-", " ", "-", " ", "0", " ", "1">>
\* 4r2k/8/8/8/8/8/4R3/4K3 w - - 99 60
FEN_PIN ==
    <<"4", "r", "2", "k", "/", "8", "/", "8", "/", "8", "/", "8", "/", "8", "/", "4", "R", "3", "/", "4", "K", "3", " ", "w", " ", "-", " ", "-", " ", "9", "9", " ", "6", "0">>
\* 7k/8/8/8/8/8/8/r3K3 w - - 3 9
FEN_RAY ==
    <<"7", "k", "/", "8", "/", "8", "/", "8", "/", "8", "/", "8", "/", "8", "/", "r", "3", "K", "3", " ", "w", " ", "-", " ", "-", " ", "3", " ", "9">>
\* 4r2k/8/8/8/8/3n4/8/2N1K3 w - - 1 30
FEN_DOUBLE ==
    <<"4", "r", "2", "k", "/", "8", "/", "8", "/", "8", "/", "8", "/", "3", "n", "4", "/", "8", "/", "2", "N", "1", "K", "3", " ", "w", " ", "-", " ", "-", " ", "1", " ", "3", "0">>
\* 8/8/8/8/8/K7/2k5/1N6 b - - 0 1
FEN_KNK ==
    <<"8", "/", "8", "/", "8", "/", "8", "/", "8", "/", "K", "7", "/", "2", "k", "5", "/", "1", "N", "6", " ", "b", " ", "-", " ", "-", " ", "0", " ", "1">>
\* 7k/8/8/8/8/8/8/K7 w - - 0 1
FEN_KK ==
    <<"7", "k", "/", "8", "/", "8", "/", "8", "/", "8", "/", "8", "/", "8", "/", "K", "7", " ", "w", " ", "-", " ", "-", " ", "0", " ", "1">>
\* k7/P7/KP6/8/8/8/8/8 w - - 99 60   (b6-b7 mates, a king move completes 100 plies)
FEN_MATE_IN_1 ==
    <<"k", "7", "/", "P", "7", "/", "K", "P", "6", "/", "8", "/", "8", "/", "8", "/", "8", "/", "8", " ", "w", " ", "-", " ", "-", " ", "9", "9", " ", "6", "0">>
\* k7/P7/KP6/8/8/8/8/8 b - - 0 1   (the side to move is stalemated)
FEN_STALEMATED ==
    <<"k", "7", "/", "P", "7", "/", "K", "P", "6", "/", "8", "/", "8", "/", "8", "/", "8", "/", "8", " ", "b", " ", "-", " ", "-", " ", "0", " ", "1">>
\* k7/PP6/K7/8/8/8/8/8 b - - 0 1   (the side to move is checkmated)
FEN_MATED ==
    <<"k", "7", "/", "P", "P", "6", "/", "K", "7", "/", "8", "/", "8", "/", "8", "/", "8", "/", "8", " ", "b", " ", "-", " ", "-", " ", "0", " ", "1">>
\* k7/P7/1P6/K7/8/8/8/8 b - - 0 1   (Ka8-b7 is the only legal move)
FEN_ONE_MOVE ==
    <<"k", "7", "/", "P", "7", "/", "1", "P", "6", "/", "K", "7", "/", "8", "/", "8", "/", "8", "/", "8", " ", "b", " ", "-", " ", "-", " ", "0", " ", "1">>
\* r3k3/8/8/8/8/8/8/R3K3 b Qq - 0 1   (the rooks face each other on their home squares)
FEN_ROOKS ==
    <<"r", "3", "k", "3", "/", "8", "/", "8", "/", "8", "/", "8", "/", "8", "/", "8", "/", "R", "3", "K", "3", " ", "b", " ", "Q", "q", " ", "-", " ", "0", " ", "1">>
\* 8/5k2/8/3Pp3/8/8/8/4RK2 w - e6 0 1   (the rook stands behind the pawn that d5xe6 takes en passant)
FEN_EP_XRAY ==
    <<"8", "/", "5", "k", "2", "/", "8", "/", "3", "P", "p", "3", "/", "8", "/", "8", "/", "8", "/", "4", "R", "K", "2", " ", "w", " ", "-", " ", "e", "6", " ", "0", " ", "1">>
\* 8/8/8/R7/1R2Pp1k/5P2/6K1/8 b - e3 0 1   (stalemate: the en-passant capture would uncover the rook on b4)
FEN_EP_STALEMATE ==
    <<"8", "/", "8", "/", "8", "/", "R", "7", "/", "1", "R", "2", "P", "p", "1", "k", "/", "5", "P", "2", "/", "6", "K", "1", "/", "8", " ", "b", " ", "-", " ", "e", "3", " ", "0", " ", "1">>
StartFens == {FEN_CASTLE, FEN_EP_PIN, FEN_PAWNS, FEN_PIN, FEN_RAY, FEN_DOUBLE, FEN_KNK, FEN_KK, FEN_ROOKS, FEN_EP_XRAY,
              FEN_STALEMATED, FEN_MATED, FEN_EP_STALEMATE}
\* rnbqkbnr/pppppppp/8/8/8/8/PPPPPPPP/RNBQKBNR w KQkq - 0 1   (START_FEN)
FEN_START ==
    <<"r", "n", "b", "q", "k", "b", "n", "r", "/", "p", "p", "p", "p", "p", "p", "p", "p", "/", "8", "/", "8", "/", "8", "/", "8", "/", "P", "P", "P", "P", "P", "P", "P", "P", "/", "R", "N", "B", "Q", "K", "B", "N", "R", " ", "w", " ", "K", "Q", "k", "q", " ", "-", " ", "0", " ", "1">>
SearchFens == {FEN_MATE_IN_1, FEN_ONE_MOVE, FEN_STALEMATED, FEN_MATED, FEN_START}

\* ------------------------------------------------------------- the boards
\* I64_MAX stands for "no limit"; it is only compared, so the largest integer
\* of the model stands in for 2^63 - 1
I64_MAX == 2147483647
\* makeMove calls in a row from a start position, and from bare kings
MaxPly == 2
DeepPly == 4

\* mStates is the history of the Board in use: the caller's board under Spec,
\* the worker's mBoard under SpecSearch
VARIABLES mStates, accBoard, snaps, lastOp,
          thread, sSearchStopped, driver, frames, stopResult, ghost, startup

\* startup, the state of main() up to uciLoop(), changes in SpecStartup only
boardVars == <<accBoard, snaps, lastOp, startup>>
searchVars == <<thread, sSearchStopped, driver, frames, stopResult, ghost, startup>>
vars == <<mStates, accBoard, snaps, lastOp,
          thread, sSearchStopped, driver, frames, stopResult, ghost, startup>>

cur == mStates[Len(mStates)]

\* what a caller compares before and after a make/undo sequence
SnapshotOf(sts, ab) ==
    [size |-> Len(sts), state |-> sts[Len(sts)],
     sizeAcc |-> Len(ab.states), stateAcc |-> ab.states[Len(ab.states)],
     accumulator |-> ab.accumulators[Len(ab.accumulators)]]

Snapshot == SnapshotOf(mStates, accBoard)

\* std::string::substr(pos, len): at most len characters from position pos
substr(str, pos, len) == SubSeq(str, pos + 1, Min(Len(str), pos + len))

\* Move::toUci(): from square, to square, and the promotion letter if any
toUci(move) ==
    SQUARE_TO_STR[move.from] \o SQUARE_TO_STR[move.to]
    \o (CASE MovePromotion(move) = KNIGHT -> <<"n">>
          [] MovePromotion(move) = BISHOP -> <<"b">>
          [] MovePromotion(move) = ROOK -> <<"r">>
          [] MovePromotion(move) = QUEEN -> <<"q">>
          [] OTHER -> <<>>)

\* uciToMove that takes a diagonal pawn move to an empty square for a pawn move
uciToMoveNoEnPassant(s, uciMove) ==
    LET from == strToSquare(substr(uciMove, 0, 2))
        to == strToSquare(substr(uciMove, 2, 4))
        pieceType == pieceTypeAt(s, from)
    IN Move(from, to,
            IF Len(uciMove) = 5
            THEN CASE uciMove[Len(uciMove)] = "n" -> KNIGHT_PROMOTION_FLAG
                   [] uciMove[Len(uciMove)] = "b" -> BISHOP_PROMOTION_FLAG
                   [] uciMove[Len(uciMove)] = "r" -> ROOK_PROMOTION_FLAG
                   [] OTHER -> QUEEN_PROMOTION_FLAG
            ELSE IF pieceType = KING /\ Abs(to - from) = 2 THEN CASTLING_FLAG
            ELSE IF pieceType = PAWN /\ Abs(to - from) = 16 THEN PAWN_TWO_UP_FLAG
            ELSE pieceType + 1)
uciToMove(s, uciMove) ==
    LET from == strToSquare(substr(uciMove, 0, 2))
        to == strToSquare(substr(uciMove, 2, 4))
        pieceType == pieceTypeAt(s, from)
        bitboardSquaresTraveled == Abs(to - from)
    IN Move(from, to,
            IF Len(uciMove) = 5
            THEN CASE uciMove[Len(uciMove)] = "n" -> KNIGHT_PROMOTION_FLAG
                   [] uciMove[Len(uciMove)] = "b" -> BISHOP_PROMOTION_FLAG
                   [] uciMove[Len(uciMove)] = "r" -> ROOK_PROMOTION_FLAG
                   [] OTHER -> QUEEN_PROMOTION_FLAG
            ELSE IF pieceType = KING
            THEN (IF Abs(to - from) = 2 THEN CASTLING_FLAG ELSE pieceType + 1)
            ELSE IF pieceType = PAWN
            THEN (IF bitboardSquaresTraveled = 16 THEN PAWN_TWO_UP_FLAG
                  ELSE IF bitboardSquaresTraveled # 8 /\ ~isOccupied(s, to)
                  THEN EN_PASSANT_FLAG
                  ELSE pieceType + 1)
            ELSE pieceType + 1)
\* attacks(color, occ): every square a piece of color attacks through occ
attacks(s, color, occ) ==
    UNION ({pawnAttacks(sq, color) : sq \in getBb2(s, color, PAWN)}
           \cup {knightAttacks(sq) : sq \in getBb2(s, color, KNIGHT)}
           \cup {bishopAttacks(sq, occ) :
                    sq \in getBb2(s, color, BISHOP) \cup getBb2(s, color, QUEEN)}
           \cup {rookAttacks(sq, occ) :
                    sq \in getBb2(s, color, ROOK) \cup getBb2(s, color, QUEEN)}
           \cup {kingAttacks(kingSquareOf(s, color))})

\* an en-passant test that lets every capture through
enPassantLegalAlways(s, ourPawnSquare) == TRUE

\* hasLegalMove lines 1225-1246: the en-passant capture is made on the
\* bitboards, the king's square is tested, the bitboards are put back
enPassantLegal(s, ourPawnSquare) ==
    LET stm == sideToMove(s)
        capturedPawnSquare == IF stm = WHITE THEN s.enPassantSquare - 8
                              ELSE s.enPassantSquare + 8
        made == removePiece(placePiece(removePiece(s, stm, PAWN, ourPawnSquare),
                                       stm, PAWN, s.enPassantSquare),
                            oppSide(s), PAWN, capturedPawnSquare)
    IN ~isSquareAttacked(made, kingSquare(s), oppSide(s))

hasLegalMove(s) ==
    LET stm == sideToMove(s)
        enemyColor == oppSide(s)
        occ == occupancy(s)
        ksq == kingSquare(s)
        theirAttacks == attacks(s, enemyColor, Xor(occ, bitboard(ksq)))
        targetSquares == (kingAttacks(ksq) \ us(s)) \ theirAttacks
        numCheckers == popcount(s.checkers)
        sliders == getBb(s, BISHOP) \cup getBb(s, ROOK) \cup getBb(s, QUEEN)
        movableBb == IF numCheckers = 1
                     THEN s.checkers
                          \cup (IF (s.checkers \cap sliders) # {}
                                THEN BETWEEN[ksq][lsb(s.checkers)] ELSE {})
                     ELSE Squares
        shortThrough == bitboard(ksq + 1) \cup bitboard(ksq + 2)
        longThrough == bitboard(ksq - 1) \cup bitboard(ksq - 2) \cup bitboard(ksq - 3)
        castling ==
            /\ numCheckers = 0
            /\ \/ /\ (s.castlingRights \cap CASTLING_MASKS[stm][CASTLE_SHORT]) # {}
                  /\ (occ \cap shortThrough) = {}
                  /\ (theirAttacks \cap shortThrough) = {}
               \/ /\ (s.castlingRights \cap CASTLING_MASKS[stm][CASTLE_LONG]) # {}
                  /\ (occ \cap longThrough) = {}
                  /\ (theirAttacks \cap Xor(longThrough, bitboard(ksq - 3))) = {}
        rookAtt == rookAttacks(ksq, occ)
        xrayRook == Xor(rookAtt, rookAttacks(ksq, Xor(occ, us(s) \cap rookAtt)))
        pinnersNonDiagonal == (getBb(s, ROOK) \cup getBb(s, QUEEN)) \cap xrayRook \cap them(s)
        pinnedNonDiagonal == UNION {BETWEEN[p][ksq] \cap us(s) : p \in pinnersNonDiagonal}
        bishopAtt == bishopAttacks(ksq, occ)
        xrayBishop == Xor(bishopAtt, bishopAttacks(ksq, Xor(occ, us(s) \cap bishopAtt)))
        pinnersDiagonal == (getBb(s, BISHOP) \cup getBb(s, QUEEN)) \cap xrayBishop \cap them(s)
        pinnedDiagonal == UNION {BETWEEN[p][ksq] \cap us(s) : p \in pinnersDiagonal}
        ourPawns == getBb2(s, stm, PAWN)
        knights == \E sq \in (getBb2(s, stm, KNIGHT) \ pinnedDiagonal) \ pinnedNonDiagonal :
                       ((knightAttacks(sq) \ us(s)) \cap movableBb) # {}
        bishops == \E sq \in getBb2(s, stm, BISHOP) \ pinnedNonDiagonal :
                       LET moves == (bishopAttacks(sq, occ) \ us(s)) \cap movableBb
                       IN (IF sq \in pinnedDiagonal THEN moves \cap LINE_THROUGH[ksq][sq]
                           ELSE moves) # {}
        rooks == \E sq \in getBb2(s, stm, ROOK) \ pinnedDiagonal :
                     LET moves == (rookAttacks(sq, occ) \ us(s)) \cap movableBb
                     IN (IF sq \in pinnedNonDiagonal THEN moves \cap LINE_THROUGH[ksq][sq]
                         ELSE moves) # {}
        queens == \E sq \in getBb2(s, stm, QUEEN) :
                      LET moves == (queenAttacks(sq, occ) \ us(s)) \cap movableBb
                      IN (IF sq \in pinnedDiagonal \cup pinnedNonDiagonal
                          THEN moves \cap LINE_THROUGH[ksq][sq] ELSE moves) # {}
        enPassant == /\ s.enPassantSquare # SQUARE_NONE
                     /\ \E sq \in ourPawns \cap pawnAttacks(s.enPassantSquare, enemyColor) :
                           enPassantLegal(s, sq)
        pawnHasMove(sq) ==
            LET captures == (pawnAttacks(sq, stm) \cap them(s)) \cap movableBb
                pinRay == LINE_THROUGH[sq][ksq]
                pinnedHorizontally ==
                    /\ sq \in pinnedNonDiagonal
                    /\ (pinRay \cap ({q + 1 : q \in pinRay} \cap Squares)) # {}
                squareOneUp == IF stm = WHITE THEN sq + 8 ELSE sq - 8
                squareTwoUp == IF stm = WHITE THEN sq + 16 ELSE sq - 16
            IN \/ (IF sq \in pinnedDiagonal \cup pinnedNonDiagonal
                   THEN captures \cap LINE_THROUGH[ksq][sq] ELSE captures) # {}
               \/ /\ sq \notin pinnedDiagonal
                  /\ ~pinnedHorizontally
                  /\ ~isOccupied(s, squareOneUp)
                  /\ \/ squareOneUp \in movableBb
                     \/ /\ squareRank(sq) = (IF stm = WHITE THEN RANK_2 ELSE RANK_7)
                        /\ squareTwoUp \in movableBb
                        /\ ~isOccupied(s, squareTwoUp)
    IN IF targetSquares # {} THEN TRUE
       ELSE IF numCheckers > 1 THEN FALSE
       ELSE \/ castling
            \/ knights \/ bishops \/ rooks \/ queens
            \/ enPassant
            \/ \E sq \in ourPawns : pawnHasMove(sq)
\* the moves a caller makes: generated, then filtered by isPseudolegalLegal
legalMoves(s) ==
    LET ms == pseudolegalMoves(s, FALSE, TRUE)
        pin == pinned(s)
    IN {ms[i] : i \in {j \in 1..Len(ms) : isPseudolegalLegal(s, ms[j], pin)}}

\* histories go deeper once only the two kings are left
PlyLimit == IF occupancy(cur) = getBb(cur, KING) THEN DeepPly ELSE MaxPly

\* no search is running while the boards are exercised
NoSearch ==
    /\ thread = [mHardMilliseconds |-> I64_MAX, mMaxNodes |-> I64_MAX, mMaxDepth |-> 1,
                 mNodes |-> 0, mMaxPlyReached |-> 0, mPvLine |-> [p \in 0..0 |-> <<>>]]
    /\ sSearchStopped = FALSE
    /\ driver = [pc |-> "idle", iterationDepth |-> 1, moveBefore |-> MOVE_NONE,
                 iterationScore |-> 0, score |-> 0]
    /\ frames = <<>>
    /\ stopResult = FALSE
    /\ ghost = [uciWrote |-> FALSE, completed |-> 0, accepted |-> MOVE_NONE]
    /\ startup = Started

\* snaps[k] is the snapshot taken when the history first had k states on this path
Init ==
    \E f \in StartFens :
        /\ mStates = <<BoardFromFen(f)>>
        /\ accBoard = BoardFromFenAcc(f)
        /\ snaps = <<SnapshotOf(<<BoardFromFen(f)>>, BoardFromFenAcc(f))>>
        /\ lastOp = "fen"
        /\ NoSearch

MakeMove ==
    /\ Len(mStates) <= PlyLimit
    /\ \E m \in legalMoves(cur) :
          /\ mStates' = makeMove(mStates, m)
          /\ accBoard' = makeMoveAcc(accBoard, m, TRUE).board
    /\ snaps' = Append(snaps, SnapshotOf(mStates', accBoard'))
    /\ lastOp' = "make"
    /\ UNCHANGED searchVars

MakeNullMove ==
    /\ Len(mStates) <= PlyLimit
    /\ ~inCheck(cur)
    /\ mStates' = makeMove(mStates, MOVE_NONE)
    /\ accBoard' = makeMoveAcc(accBoard, MOVE_NONE, TRUE).board
    /\ snaps' = Append(snaps, SnapshotOf(mStates', accBoard'))
    /\ lastOp' = "null"
    /\ UNCHANGED searchVars

UndoMove ==
    /\ Len(mStates) >= 2
    /\ mStates' = undoMove(mStates)
    /\ accBoard' = undoMoveAcc(accBoard)
    /\ snaps' = SubSeq(snaps, 1, Len(snaps) - 1)
    /\ lastOp' = "undo"
    /\ UNCHANGED searchVars

\* makeMove(move, true) of part_001 with a generated move that leaves the mover's
\* king attacked: it returns false with the state popped again
MakeIllegalMove ==
    /\ \E m \in Range(pseudolegalMoves(cur, FALSE, TRUE)) \ legalMoves(cur) :
          /\ ~makeMoveAcc(accBoard, m, TRUE).ok
          /\ accBoard' = makeMoveAcc(accBoard, m, TRUE).board
    /\ lastOp' = "rejected"
    /\ UNCHANGED <<mStates, snaps, searchVars>>

Next == MakeMove \/ MakeNullMove \/ UndoMove \/ MakeIllegalMove

Spec == Init /\ [][Next]_vars

\* the same boards with no way back: undoMove only returns to a position and a
\* Board already visited, so what is said of one position, or of one call on
\* it, is checked on the histories that only grow
NextForward == MakeMove \/ MakeNullMove \/ MakeIllegalMove

SpecForward == Init /\ [][NextForward]_vars

\* ------------------------------------------ search (unnamed/part_003)
INF == 32000

\* the maxDepth values of "go depth"
MaxSearchDepth == 2
\* mPliesData has MAX_DEPTH + 1 entries (line 47); the limit is scaled down to
\* the depths searched here, so that searches reach it
MAX_DEPTH == MaxSearchDepth
\* the finite maxNodes of "go nodes"
NodeBudget == 1
\* the finite hardMilliseconds, and the largest elapsed time read
MaxElapsed == 1
\* the time check comes every 1024 nodes in the code (line 154); the period is
\* scaled down to the node counts of the positions searched here
NODE_CHECK_PERIOD == 4
\* how many values of the random term of evaluate() are told apart
NoiseChoices == 2



\* randomU64() % 51 - 25, drawn from NoiseChoices values spread over -25..25
EvalNoise == {(50 * k) \div (NoiseChoices - 1) - 25 : k \in 0..(NoiseChoices - 1)}

\* SearchThread::evaluate with the random term given
evaluate(s, noise) ==
      100 * popcount(getBb2(s, sideToMove(s), PAWN))
    + 300 * popcount(getBb2(s, sideToMove(s), KNIGHT))
    + 300 * popcount(getBb2(s, sideToMove(s), BISHOP))
    + 500 * popcount(getBb2(s, sideToMove(s), ROOK))
    + 900 * popcount(getBb2(s, sideToMove(s), QUEEN))
    - 100 * popcount(getBb2(s, oppSide(s), PAWN))
    - 300 * popcount(getBb2(s, oppSide(s), KNIGHT))
    - 300 * popcount(getBb2(s, oppSide(s), BISHOP))
    - 500 * popcount(getBb2(s, oppSide(s), ROOK))
    - 900 * popcount(getBb2(s, oppSide(s), QUEEN))
    + noise

\* SearchThread::bestMoveRoot
bestMoveRootNone(th) == MOVE_NONE
bestMoveRoot(th) == IF Len(th.mPvLine[0]) = 0 THEN MOVE_NONE ELSE th.mPvLine[0][1]

\* PlyData::genAndScoreMoves: the moves that nextMove then hands out one by one,
\* here in the order of their generation
genAndScoreMoves(s, noisyOnly) == pseudolegalMoves(s, noisyOnly, ~noisyOnly)

\* the locals of one activation of search(depth, ply, alpha, beta) or qSearch
Frame(fn, depth, ply, alpha, beta, pc) ==
    [fn |-> fn, depth |-> depth, ply |-> ply, alpha |-> alpha, beta |-> beta,
     moves |-> <<>>, pinned |-> {}, legalMovesSeen |-> 0, bestScore |-> 0,
     move |-> MOVE_NONE, score |-> 0, pc |-> pc]

top == frames[Len(frames)]

\* where the worker stands: in the innermost activation, else in the iteration loop
workerPc == IF frames = <<>> THEN driver.pc ELSE top.pc

setPc(newPc) ==
    IF frames = <<>>
    THEN /\ driver' = [driver EXCEPT !.pc = newPc]
         /\ UNCHANGED frames
    ELSE /\ frames' = [frames EXCEPT ![Len(frames)].pc = newPc]
         /\ UNCHANGED driver

\* the calls of stopSearch(): lines 99, 187, 220, 251, 283
StopSites == {"stop99", "stop187", "stop220", "stop251", "stop283"}
WriteSites == {"write99", "write187", "write220", "write251", "write283"}

writeSite(site) ==
    CASE site = "stop99" -> "write99" [] site = "stop187" -> "write187"
      [] site = "stop220" -> "write220" [] site = "stop251" -> "write251"
      [] site = "stop283" -> "write283"

afterStop(site) ==
    CASE site \in {"stop99", "write99"} -> "after99"
      [] site \in {"stop187", "write187"} -> "entry"
      [] site \in {"stop220", "write220"} -> "after"
      [] site \in {"stop251", "write251"} -> "qentry"
      [] site \in {"stop283", "write283"} -> "qafter"

\* a return with value from the innermost activation: the caller takes the
\* value, undoes its move (lines 216-218, 279-281) or ends the iteration (line 97)
ReturnTo(value) ==
    LET rest == SubSeq(frames, 1, Len(frames) - 1) IN
    IF rest = <<>>
    THEN /\ frames' = <<>>
         /\ driver' = [driver EXCEPT !.iterationScore = value, !.pc = "stop99"]
         /\ UNCHANGED mStates
    ELSE /\ frames' = [rest EXCEPT ![Len(rest)].score = 0 - value,
                                   ![Len(rest)].pc = IF rest[Len(rest)].fn = "search"
                                                     THEN "stop220" ELSE "stop283"]
         /\ mStates' = undoMove(mStates)
         /\ UNCHANGED driver

\* SearchThread::makeMove: the fields of the thread after a move at ply
threadAfterMove(th, ply) ==
    [th EXCEPT !.mNodes = @ + 1, !.mPvLine[ply + 1] = <<>>]

\* line 191 / 253: update seldepth
seldepth(th, ply) == [th EXCEPT !.mMaxPlyReached = Max(@, ply)]

\* line 239: the score of a node without a legal move
noLegalMoveScoreFlat(s, ply) == IF inCheck(s) THEN 0 - INF ELSE 0

noLegalMoveScore(s, ply) == IF inCheck(s) THEN 0 - INF + ply ELSE 0

\* lines 237-241: what search(depth, ply, alpha, beta) returns after its moves loop
searchResult(s, f) ==
    IF f.legalMovesSeen = 0 THEN noLegalMoveScore(s, f.ply) ELSE f.bestScore

\* the first remaining move that passes isPseudolegalLegal, 0 if none
nextLegal(s, f) ==
    LET ok == {j \in 1..Len(f.moves) : isPseudolegalLegal(s, f.moves[j], f.pinned)}
    IN IF ok = {} THEN 0 ELSE lsb(ok)

\* the board of START_FEN
START_POSITION == BoardFromFen(FEN_START)

\* the boards the searches start from
SearchRoots == {BoardFromFen(f) : f \in SearchFens}

\* the depths a search of root is started with; the starting position, with
\* its twenty moves a node, is searched to depth 1 only
\* the maxDepth values of "go depth": some below 1 and above MAX_DEPTH among them
SearchDepths(root) == IF root = START_POSITION THEN {1} ELSE 0..(MAX_DEPTH + 1)

\* a clamp that forgets the upper limit
clampLowOnly(v, lo, hi) == Max(v, lo)

\* std::clamp(v, lo, hi)
clamp(v, lo, hi) == Min(Max(v, lo), hi)

\* search(board, maxDepth, startTime, hardMilliseconds, maxNodes), lines 80-89
InitSearch ==
    \E root \in SearchRoots, hardMilliseconds \in {MaxElapsed, I64_MAX}, maxNodes \in {NodeBudget, I64_MAX} :
      \E maxDepth \in SearchDepths(root) :
        /\ mStates = <<root>>
        /\ accBoard = BoardFromFenAcc(FEN_KK)   \* takes no part in this search
        /\ snaps = <<SnapshotOf(<<root>>, BoardFromFenAcc(FEN_KK))>>   \* the caller's Board
        /\ lastOp = "search"
        /\ thread = [mHardMilliseconds |-> Max(hardMilliseconds, 0),
                     mMaxNodes |-> Max(maxNodes, 0),
                     mMaxDepth |-> clamp(maxDepth, 1, MAX_DEPTH),
                     mNodes |-> 0, mMaxPlyReached |-> 0,
                     mPvLine |-> [p \in 0..MAX_DEPTH |-> <<>>]]
        /\ sSearchStopped = FALSE
        /\ driver = [pc |-> "iter", iterationDepth |-> 1, moveBefore |-> MOVE_NONE,
                     iterationScore |-> 0, score |-> 0]
        /\ frames = <<>>
        /\ stopResult = FALSE
        /\ ghost = [uciWrote |-> FALSE, completed |-> 0, accepted |-> MOVE_NONE]
        /\ startup = Started

\* the head of the loop that leaves one iteration early
StartIterationStopsEarly ==
    /\ frames = <<>>
    /\ driver.pc = "iter"
    /\ IF driver.iterationDepth < thread.mMaxDepth
       THEN /\ thread' = [thread EXCEPT !.mMaxPlyReached = 0]
            /\ driver' = [driver EXCEPT !.moveBefore = bestMoveRoot(thread), !.pc = "ret97"]
            /\ frames' = <<Frame("search", driver.iterationDepth, 0, 0 - INF, INF, "stop187")>>
       ELSE /\ driver' = [driver EXCEPT !.pc = "return"]
            /\ UNCHANGED <<thread, frames>>
    /\ UNCHANGED <<mStates, boardVars, sSearchStopped, stopResult, ghost>>

\* lines 92-97: the head of the iterative-deepening loop and the root call
StartIteration ==
    /\ frames = <<>>
    /\ driver.pc = "iter"
    /\ IF driver.iterationDepth <= thread.mMaxDepth
       THEN /\ thread' = [thread EXCEPT !.mMaxPlyReached = 0]
            /\ driver' = [driver EXCEPT !.moveBefore = bestMoveRoot(thread), !.pc = "ret97"]
            /\ frames' = <<Frame("search", driver.iterationDepth, 0, 0 - INF, INF, "stop187")>>
       ELSE /\ driver' = [driver EXCEPT !.pc = "return"]
            /\ UNCHANGED <<thread, frames>>
    /\ UNCHANGED <<mStates, boardVars, sSearchStopped, stopResult, ghost>>

\* stopSearch() from its read of the flag (line 144) to the node budget (line 151)
StopSearchRead ==
    /\ workerPc \in StopSites
    /\ IF sSearchStopped
       THEN /\ stopResult' = TRUE
            /\ setPc(afterStop(workerPc))
            /\ UNCHANGED sSearchStopped
       ELSE IF bestMoveRoot(thread) = MOVE_NONE
       THEN /\ stopResult' = FALSE
            /\ setPc(afterStop(workerPc))
            /\ UNCHANGED sSearchStopped
       ELSE IF thread.mMaxNodes # I64_MAX /\ thread.mNodes >= thread.mMaxNodes
       THEN /\ sSearchStopped' = TRUE
            /\ stopResult' = TRUE
            /\ setPc(afterStop(workerPc))
       ELSE /\ setPc(writeSite(workerPc))
            /\ UNCHANGED <<sSearchStopped, stopResult>>
    /\ UNCHANGED <<mStates, boardVars, thread, ghost>>

\* stopSearch() line 154: the time check and its write of the flag
StopSearchWrite ==
    /\ workerPc \in WriteSites
    /\ \E millisecondsElapsed \in 0..MaxElapsed :
         LET stop == /\ thread.mNodes % NODE_CHECK_PERIOD = 0
                     /\ millisecondsElapsed >= thread.mHardMilliseconds
         IN /\ sSearchStopped' = stop
            /\ stopResult' = stop
    /\ setPc(afterStop(workerPc))
    /\ UNCHANGED <<mStates, boardVars, thread, ghost>>

\* the UCI thread handling "stop" while the worker is inside search()
UciStop ==
    /\ driver.pc \notin {"idle", "done"}
    /\ ~ghost.uciWrote
    /\ sSearchStopped' = TRUE
    /\ ghost' = [ghost EXCEPT !.uciWrote = TRUE]
    /\ UNCHANGED <<mStates, boardVars, thread, driver, frames, stopResult>>

\* search(depth, ply, alpha, beta), lines 187-202
SearchEntry ==
    /\ frames # <<>>
    /\ top.pc = "entry"
    /\ IF stopResult
       THEN ReturnTo(0) /\ UNCHANGED thread
       ELSE IF top.depth <= 0
       THEN /\ frames' = [frames EXCEPT ![Len(frames)].fn = "qSearch",
                                        ![Len(frames)].pc = "stop251"]
            /\ UNCHANGED <<mStates, driver, thread>>
       ELSE /\ thread' = seldepth(thread, top.ply)
            /\ IF top.ply >= thread.mMaxDepth
               THEN \E noise \in EvalNoise : ReturnTo(evaluate(cur, noise))
               ELSE /\ frames' = [frames EXCEPT ![Len(frames)] =
                          [top EXCEPT !.depth = Min(top.depth, thread.mMaxDepth),
                                      !.moves = genAndScoreMoves(cur, FALSE),
                                      !.pinned = pinned(cur),
                                      !.legalMovesSeen = 0,
                                      !.bestScore = 0 - INF,
                                      !.pc = "loop"]]
                    /\ UNCHANGED <<mStates, driver>>
    /\ UNCHANGED <<boardVars, sSearchStopped, stopResult, ghost>>

\* the moves loop of search, lines 205-216: next legal move, make it, recurse
SearchNextMove ==
    /\ frames # <<>>
    /\ top.pc = "loop"
    /\ LET k == nextLegal(cur, top) IN
       IF k = 0
       THEN /\ frames' = [frames EXCEPT ![Len(frames)].moves = <<>>,
                                        ![Len(frames)].pc = "end"]
            /\ UNCHANGED <<mStates, thread>>
       ELSE LET move == top.moves[k]
                made == makeMove(mStates, move)
                f == [top EXCEPT !.moves = SubSeq(top.moves, k + 1, Len(top.moves)),
                                 !.legalMovesSeen = @ + 1,
                                 !.move = move]
            IN /\ thread' = threadAfterMove(thread, top.ply)
               /\ IF isRepetition(made, top.ply)
                  THEN /\ frames' = [frames EXCEPT ![Len(frames)] =
                                        [f EXCEPT !.score = 0, !.pc = "stop220"]]
                       /\ mStates' = undoMove(made)
                  ELSE /\ frames' = Append([frames EXCEPT ![Len(frames)] =
                                               [f EXCEPT !.pc = "ret216"]],
                                           Frame("search",
                                                 top.depth - 1 + (IF inCheck(made[Len(made)]) THEN 1 ELSE 0),
                                                 top.ply + 1, 0 - top.beta, 0 - top.alpha,
                                                 "stop187"))
                       /\ mStates' = made
    /\ UNCHANGED <<boardVars, sSearchStopped, driver, stopResult, ghost>>

\* the moves loop of search that takes the child's score without asking stopSearch
SearchAfterMoveIgnoresStop ==
    /\ frames # <<>>
    /\ top.pc = "after"
    /\ LET f == [top EXCEPT !.bestScore = Max(@, top.score)] IN
       IF top.score <= top.alpha
       THEN /\ frames' = [frames EXCEPT ![Len(frames)] = [f EXCEPT !.pc = "loop"]]
            /\ UNCHANGED <<mStates, driver, thread>>
       ELSE /\ frames' = [frames EXCEPT ![Len(frames)] =
                             [f EXCEPT !.alpha = top.score,
                                       !.pc = IF top.score < top.beta THEN "loop" ELSE "end"]]
            /\ thread' = [thread EXCEPT !.mPvLine[top.ply] = <<top.move>>]
            /\ UNCHANGED <<mStates, driver>>
    /\ UNCHANGED <<boardVars, sSearchStopped, stopResult, ghost>>
\* the moves loop of search, lines 220-234: the child's score is in
SearchAfterMove ==
    /\ frames # <<>>
    /\ top.pc = "after"
    /\ IF stopResult
       THEN ReturnTo(0) /\ UNCHANGED thread
       ELSE LET f == [top EXCEPT !.bestScore = Max(@, top.score)] IN
            IF top.score <= top.alpha
            THEN /\ frames' = [frames EXCEPT ![Len(frames)] = [f EXCEPT !.pc = "loop"]]
                 /\ UNCHANGED <<mStates, driver, thread>>
            ELSE /\ frames' = [frames EXCEPT ![Len(frames)] =
                                  [f EXCEPT !.alpha = top.score,
                                            !.pc = IF top.score < top.beta THEN "loop" ELSE "end"]]
                 /\ thread' = [thread EXCEPT !.mPvLine[top.ply] = <<top.move>>]
                 /\ UNCHANGED <<mStates, driver>>
    /\ UNCHANGED <<boardVars, sSearchStopped, stopResult, ghost>>

\* search, lines 237-241: mate, stalemate or the best score
SearchEnd ==
    /\ frames # <<>>
    /\ top.pc = "end"
    /\ ReturnTo(searchResult(cur, top))
    /\ ghost' = IF Len(frames) = 1 THEN [ghost EXCEPT !.completed = driver.iterationDepth]
                ELSE ghost
    /\ UNCHANGED <<boardVars, thread, sSearchStopped, stopResult>>

\* qSearch(ply, alpha, beta), lines 251-267
QSearchEntry ==
    /\ frames # <<>>
    /\ top.pc = "qentry"
    /\ IF stopResult
       THEN ReturnTo(0) /\ UNCHANGED thread
       ELSE /\ thread' = seldepth(thread, top.ply)
            /\ \E noise \in EvalNoise :
                 LET eval == evaluate(cur, noise) IN
                 IF top.ply >= thread.mMaxDepth \/ eval >= top.beta
                 THEN ReturnTo(eval)
                 ELSE /\ frames' = [frames EXCEPT ![Len(frames)] =
                            [top EXCEPT !.alpha = Max(top.alpha, eval),
                                        !.moves = genAndScoreMoves(cur, TRUE),
                                        !.pinned = pinned(cur),
                                        !.bestScore = eval,
                                        !.pc = "qloop"]]
                      /\ UNCHANGED <<mStates, driver>>
    /\ UNCHANGED <<boardVars, sSearchStopped, stopResult, ghost>>

\* the moves loop of qSearch, lines 270-279
QSearchNextMove ==
    /\ frames # <<>>
    /\ top.pc = "qloop"
    /\ LET k == nextLegal(cur, top) IN
       IF k = 0
       THEN /\ frames' = [frames EXCEPT ![Len(frames)].moves = <<>>,
                                        ![Len(frames)].pc = "qend"]
            /\ UNCHANGED <<mStates, thread>>
       ELSE LET move == top.moves[k]
                f == [top EXCEPT !.moves = SubSeq(top.moves, k + 1, Len(top.moves)),
                                 !.move = move, !.pc = "ret279"]
            IN /\ thread' = threadAfterMove(thread, top.ply)
               /\ frames' = Append([frames EXCEPT ![Len(frames)] = f],
                                   Frame("qSearch", 0, top.ply + 1,
                                         0 - top.beta, 0 - top.alpha, "stop251"))
               /\ mStates' = makeMove(mStates, move)
    /\ UNCHANGED <<boardVars, sSearchStopped, driver, stopResult, ghost>>

\* the moves loop of qSearch, lines 283-291
QSearchAfterMove ==
    /\ frames # <<>>
    /\ top.pc = "qafter"
    /\ IF stopResult
       THEN ReturnTo(0)
       ELSE /\ IF top.score <= top.bestScore
               THEN frames' = [frames EXCEPT ![Len(frames)].pc = "qloop"]
               ELSE frames' = [frames EXCEPT ![Len(frames)] =
                       [top EXCEPT !.bestScore = top.score,
                                   !.alpha = IF top.score >= top.beta THEN @
                                             ELSE Max(@, top.score),
                                   !.pc = IF top.score >= top.beta THEN "qend" ELSE "qloop"]]
            /\ UNCHANGED <<mStates, driver>>
    /\ UNCHANGED <<boardVars, thread, sSearchStopped, stopResult, ghost>>

\* qSearch, line 294
QSearchEnd ==
    /\ frames # <<>>
    /\ top.pc = "qend"
    /\ ReturnTo(top.bestScore)
    /\ UNCHANGED <<boardVars, thread, sSearchStopped, stopResult, ghost>>

\* lines 99-105: the stop check after an iteration, then its result is taken
AfterIteration ==
    /\ frames = <<>>
    /\ driver.pc = "after99"
    /\ IF stopResult
       THEN /\ thread' = [thread EXCEPT !.mPvLine[0] = <<driver.moveBefore>>]
            /\ driver' = [driver EXCEPT !.pc = "return"]
            /\ UNCHANGED ghost
       ELSE /\ driver' = [driver EXCEPT !.score = driver.iterationScore,
                                        !.iterationDepth = @ + 1,
                                        !.pc = "iter"]
            /\ ghost' = [ghost EXCEPT !.accepted = bestMoveRoot(thread)]
            /\ UNCHANGED thread
    /\ UNCHANGED <<mStates, boardVars, sSearchStopped, frames, stopResult>>

\* lines 133-135: the end of search(board, ...)
SearchReturn ==
    /\ frames = <<>>
    /\ driver.pc = "return"
    /\ sSearchStopped' = TRUE
    /\ driver' = [driver EXCEPT !.pc = "done"]
    /\ UNCHANGED <<mStates, boardVars, thread, frames, stopResult, ghost>>

NextSearch ==
    \/ StartIteration
    \/ StopSearchRead
    \/ StopSearchWrite
    \/ UciStop
    \/ SearchEntry
    \/ SearchNextMove
    \/ SearchAfterMove
    \/ SearchEnd
    \/ QSearchEntry
    \/ QSearchNextMove
    \/ QSearchAfterMove
    \/ QSearchEnd
    \/ AfterIteration
    \/ SearchReturn

SpecSearch == InitSearch /\ [][NextSearch]_vars

\* a step of the worker thread: any step taken before search() has returned
\* other than the UCI thread's write. The first disjunct is a case of the
\* second in which every variable is given, which lets TLC decide ENABLED
\* without generating moves.
WorkerRuns ==
    /\ driver.pc # "done"
    /\ \/ /\ driver' = [driver EXCEPT !.pc = "done"]
          /\ UNCHANGED <<mStates, boardVars, thread, sSearchStopped, frames,
                         stopResult, ghost, startup>>
       \/ ghost'.uciWrote = ghost.uciWrote

\* the worker thread keeps running until search() has returned; the UCI thread
\* may or may not send "stop"
SpecSearchFair == InitSearch /\ [][NextSearch]_vars /\ WF_vars(WorkerRuns)
\* ----------------------------------------------------------------- claims
DEFAULT_SEARCH_PLY == 100000
SearchPlies == 0..(DeepPly + 1) \cup {DEFAULT_SEARCH_PLY}

\* the mover's king is attacked once move has been made on s
kingAttackedAfter(s, move) ==
    LET after == makeMoveState(s, move)
    IN isSquareAttacked(after, kingSquareOf(after, sideToMove(s)), oppSide(s))

\* the square a castling king passes over
crossedSquare(move) == IF move.to > move.from THEN move.from + 1 ELSE move.from - 1

\* C1 as stated: a generated move passes isPseudolegalLegal exactly when making
\* it leaves the mover's king unattacked.
C1_LegalIffKingSafeAfter ==
    LET ms == pseudolegalMoves(cur, FALSE, TRUE) IN
    \A i \in 1..Len(ms) :
        isPseudolegalLegal(cur, ms[i], pinned(cur)) <=> ~kingAttackedAfter(cur, ms[i])

\* C1 amended: a generated move passes isPseudolegalLegal exactly when making it
\* leaves the mover's king unattacked and, for castling, the square the king
\* passes over is not attacked in the position before the move.
C1_LegalIffChessLegal ==
    LET ms == pseudolegalMoves(cur, FALSE, TRUE)
        pin == pinned(cur)
    IN
    \A i \in 1..Len(ms) :
        isPseudolegalLegal(cur, ms[i], pin)
        <=> /\ ~kingAttackedAfter(cur, ms[i])
            /\ (ms[i].flag = CASTLING_FLAG
                  => ~isSquareAttacked(cur, crossedSquare(ms[i]), oppSide(cur)))

\* a position reached by a move in which castling is generated, the king would
\* stand safe after it, and it is rejected for the attacked square it crosses
C1_Witness ==
    /\ lastOp = "make"
    /\ LET ms == pseudolegalMoves(cur, FALSE, TRUE) IN
       \E i \in 1..Len(ms) :
           /\ ms[i].flag = CASTLING_FLAG
           /\ ~kingAttackedAfter(cur, ms[i])
           /\ isSquareAttacked(cur, crossedSquare(ms[i]), oppSide(cur))
           /\ ~isPseudolegalLegal(cur, ms[i], pinned(cur))

\* C2: whenever the history is back at a length it had before, the history
\* length, every field of the current state and the top accumulator are what
\* they were then (k makeMove calls followed by k undoMove calls).
C2_MakeUndoRestores == Snapshot = snaps[Len(snaps)]

\* an undo has brought both boards back to a position that a real move reached
C2_Witness ==
    /\ lastOp = "undo"
    /\ Len(mStates) >= 2
    /\ Len(accBoard.accumulators) >= 2
    /\ cur.lastMove # MOVE_NONE

RECURSIVE XorAll(_)
XorAll(keys) == IF keys = {} THEN {}
                ELSE LET k == CHOOSE x \in keys : TRUE IN Xor(k, XorAll(keys \ {k}))

\* the Zobrist hash of s computed from scratch
hashFromScratch(s) ==
    LET pieces == XorAll({ZOBRIST_PIECES[x[1]][x[2]][x[3]] :
                            x \in {y \in Colors \X PieceTypes \X Squares :
                                     y[3] \in getBb2(s, y[1], y[2])}})
        side == IF s.colorToMove = BLACK THEN ZOBRIST_COLOR ELSE {}
        ep == IF s.enPassantSquare # SQUARE_NONE
              THEN ZOBRIST_FILES[squareFile(s.enPassantSquare)] ELSE {}
    IN Xor(Xor(Xor(pieces, side), s.castlingRights), ep)

\* C3: the running zobristHash equals the hash recomputed from scratch.
C3_HashFromScratch == cur.zobristHash = hashFromScratch(cur)

\* a move has just changed the castling rights or the en-passant square
C3_Witness ==
    /\ lastOp \in {"make", "null"}
    /\ Len(mStates) >= 2
    /\ \/ mStates[Len(mStates) - 1].castlingRights # cur.castlingRights
       \/ mStates[Len(mStates) - 1].enPassantSquare # cur.enPassantSquare

\* C4: parsing fen() back gives the same bitboards, castling rights, en-passant
\* square, both counters and Zobrist hash.
C4_FenRoundTrip ==
    LET back == BoardFromFen(fen(cur)) IN
    /\ back.colorBitboards = cur.colorBitboards
    /\ back.piecesBitboards = cur.piecesBitboards
    /\ back.castlingRights = cur.castlingRights
    /\ back.enPassantSquare = cur.enPassantSquare
    /\ back.pliesSincePawnOrCapture = cur.pliesSincePawnOrCapture
    /\ back.currentMoveCounter = cur.currentMoveCounter
    /\ back.zobristHash = cur.zobristHash

\* a position after a double push, with an en-passant square and castling rights
C4_Witness ==
    /\ lastOp = "make"
    /\ cur.enPassantSquare # SQUARE_NONE
    /\ cur.pliesSincePawnOrCapture = 0

\* the repetition rule of the claim, over the set of matching history indices
repetitionRule(sts, searchPly) ==
    LET size == Len(sts)
        last == sts[size]
        lo == Max(0, size - last.pliesSincePawnOrCapture - 1)
        matches == {i \in lo..(size - 3) :
                      /\ (size - 1 - i) % 2 = 0
                      /\ At(sts, i).zobristHash = last.zobristHash}
    IN \/ \E i \in matches : i > size - searchPly - 1
       \/ Cardinality({i \in matches : i <= size - searchPly - 1}) >= 2

C8_IsDrawCases ==
    \A p \in SearchPlies :
        isDraw(mStates, p)
        <=> \/ cur.pliesSincePawnOrCapture >= 100
            \/ occupancy(cur) = getBb(cur, KING)
            \/ /\ Cardinality(occupancy(cur)) = 3
               /\ \E sq \in occupancy(cur) : pieceTypeAt(cur, sq) \in {KNIGHT, BISHOP}
            \/ isRepetition(mStates, p)

\* the position 7k/8/8/8/8/8/8/K7 is a draw
C8_Witness ==
    /\ mStates = <<BoardFromFen(FEN_KK)>>
    /\ isDraw(mStates, 0)

\* the search has returned to its caller
searchReturned == driver.pc = "done"

\* C5: once the root search of the first iteration has completed, a search
\* that returns (root with a legal move) leaves bestMoveRoot() different from
\* MOVE_NONE and equal to the best root move of the last accepted iteration.
C5_BestMoveAfterFirstIteration ==
    (searchReturned /\ ghost.completed >= 1 /\ legalMoves(cur) # {})
    => /\ bestMoveRoot(thread) # MOVE_NONE
       /\ bestMoveRoot(thread) = ghost.accepted

\* C6: after the UCI thread has written sSearchStopped = true during search(),
\* the flag is true until search() returns.
C6_StopFlagStaysSet ==
    (ghost.uciWrote /\ ~searchReturned) => sSearchStopped

\* C9: a negamax node below the root whose position is a draw is never taken
\* into the moves loop.
C9_DrawNodeNotSearched ==
    (frames # <<>> /\ top.fn = "search" /\ top.ply >= 1 /\ top.pc \in {"loop", "end"})
    => ~isDraw(mStates, top.ply)

\* C10: a negamax node that leaves its moves loop unstopped returns -INF + ply
\* when it has no legal move and is in check, 0 when it has none and is not in
\* check, and takes the no-legal-move branch only when no legal move exists.
C10_MateAndStalemateScores ==
    (frames # <<>> /\ top.fn = "search" /\ top.pc = "end")
    => /\ top.ply < thread.mMaxDepth
       /\ top.depth > 0
       /\ legalMoves(cur) = {}
            => searchResult(cur, top) = (IF inCheck(cur) THEN 0 - INF + top.ply ELSE 0)
       /\ top.legalMovesSeen = 0 => legalMoves(cur) = {}

\* a checkmated node one ply below the root is about to return
C10_Witness ==
    /\ frames # <<>>
    /\ top.fn = "search"
    /\ top.pc = "end"
    /\ top.ply = 1
    /\ legalMoves(cur) = {}
    /\ inCheck(cur)
    /\ ~stopResult


\* a depth-1 search of the starting position without node limit, time limit or stop
depthOneFromStart ==
    /\ mStates[1] = START_POSITION
    /\ thread.mMaxDepth = 1
    /\ thread.mMaxNodes = I64_MAX
    /\ thread.mHardMilliseconds = I64_MAX
    /\ ~ghost.uciWrote

\* C11: a depth-1 search of the starting position with no node limit, no time
\* limit and the stop flag left clear returns with bestMoveRoot() one of the
\* twenty legal opening moves.
C11_DepthOneFromStartpos ==
    (searchReturned /\ depthOneFromStart)
    => /\ bestMoveRoot(thread) \in legalMoves(START_POSITION)
       /\ bestMoveRoot(thread) # MOVE_NONE
       /\ Cardinality(legalMoves(START_POSITION)) = 20
       /\ mStates = <<START_POSITION>>

\* such a search has returned
C11_Witness ==
    /\ searchReturned
    /\ depthOneFromStart
    /\ thread.mNodes = 20
\* C12: after construction and after every makeMove, the null move included,
\* checkers equals attackers(kingSquare(side to move)) & them(), holds at most
\* two squares, and is non-empty exactly when the king of the side to move is
\* attacked.
C12_CheckersAreKingAttackers ==
    /\ cur.checkers = attackers(cur, kingSquare(cur)) \cap them(cur)
    /\ Cardinality(cur.checkers) <= 2
    /\ inCheck(cur) <=> isSquareAttacked(cur, kingSquare(cur), oppSide(cur))

\* a null move has been answered by a move that gives check
C12_Witness ==
    /\ lastOp = "make"
    /\ Len(mStates) >= 3
    /\ mStates[Len(mStates) - 1].lastMove = MOVE_NONE
    /\ cur.checkers # {}
\* the board of s is well formed
wellFormed(s) ==
    /\ getBbColor(s, WHITE) \cap getBbColor(s, BLACK) = {}
    /\ \A p1 \in PieceTypes, p2 \in PieceTypes :
           p1 # p2 => getBb(s, p1) \cap getBb(s, p2) = {}
    /\ UNION {getBb(s, pt) : pt \in PieceTypes} = getBbColor(s, WHITE) \cup getBbColor(s, BLACK)
    /\ \A c \in Colors : Cardinality(getBb2(s, c, KING)) = 1
    /\ \A sq \in getBb(s, PAWN) : squareRank(sq) \notin {0, 7}   \* rank 1, rank 8

\* C13: in every state reached by legal moves from a legal FEN the color
\* bitboards are disjoint, the piece-type bitboards are pairwise disjoint and
\* cover exactly the colored squares, each color has exactly one king, and no
\* pawn stands on rank 1 or rank 8.
C13_BoardWellFormed == \A i \in 1..Len(mStates) : wellFormed(mStates[i])

\* a pawn has just captured onto the last rank and promoted
C13_Witness ==
    /\ lastOp = "make"
    /\ cur.lastMove.flag \in KNIGHT_PROMOTION_FLAG..QUEEN_PROMOTION_FLAG
    /\ cur.captured # NONE
\* the rook squares A1, H1, A8, H8 and the kings' home squares E1, E8
ROOK_HOME == UNION {CASTLING_MASKS[c][k] : c \in Colors, k \in {CASTLE_SHORT, CASTLE_LONG}}
KING_HOME == [c \in Colors |-> IF c = WHITE THEN 4 ELSE 60]

\* every right of s has its rook and its king at home
rightsBacked(s) ==
    /\ s.castlingRights \subseteq ROOK_HOME
    /\ \A c \in Colors, k \in {CASTLE_SHORT, CASTLE_LONG} :
           (CASTLING_MASKS[c][k] \cap s.castlingRights) # {}
           => /\ CASTLING_MASKS[c][k] \subseteq getBb2(s, c, ROOK)
              /\ kingSquareOf(s, c) = KING_HOME[c]

\* the rights after move has been made on before, as the rule states them
rightsAfter(before, move) ==
    IF move = MOVE_NONE THEN before.castlingRights
    ELSE (before.castlingRights
            \ (IF MovePieceType(move) = KING
               THEN CASTLING_MASKS[sideToMove(before)][CASTLE_SHORT]
                      \cup CASTLING_MASKS[sideToMove(before)][CASTLE_LONG]
               ELSE {}))
         \ {move.from, move.to}

\* C14: castlingRights is a subset of {A1, H1, A8, H8}; makeMove sets no bit,
\* clears both bits of the mover when its king moves, clears the bits at the
\* from and to squares of the move and changes no other bit; every bit that is
\* set has a rook of its color on its square and that color's king at home.
C14_CastlingRights ==
    /\ \A i \in 1..Len(mStates) : rightsBacked(mStates[i])
    /\ \A i \in 2..Len(mStates) :
           mStates[i].castlingRights = rightsAfter(mStates[i - 1], mStates[i].lastMove)

\* a rook has just been captured on its home square while its right was set
C14_Witness ==
    /\ lastOp = "make"
    /\ cur.captured = ROOK
    /\ cur.lastMove.to \in mStates[Len(mStates) - 1].castlingRights
    /\ cur.lastMove.from \in mStates[Len(mStates) - 1].castlingRights

\* move, made on before, pushes a pawn two squares
isDoublePush(before, move) ==
    /\ move # MOVE_NONE
    /\ pieceTypeAt(before, move.from) = PAWN
    /\ Abs(move.to - move.from) = 16

\* the en-passant square of s lies behind a pawn that the side not to move has
\* on its fourth rank
enPassantPlaced(s) ==
    s.enPassantSquare # SQUARE_NONE
    => IF sideToMove(s) = BLACK
       THEN /\ squareRank(s.enPassantSquare) = 2
            /\ s.enPassantSquare + 8 \in getBb2(s, WHITE, PAWN)
       ELSE /\ squareRank(s.enPassantSquare) = 5
            /\ s.enPassantSquare - 8 \in getBb2(s, BLACK, PAWN)

\* C15: after every makeMove, enPassantSquare is set exactly when the move was
\* a pawn double push, and then it is the square jumped over, on rank 3 with
\* Black to move or rank 6 with White to move, with the pushed pawn directly in
\* front of it; every move, the null move included, clears the previous square.
C15_EnPassantSquare ==
    \A i \in 2..Len(mStates) :
        LET before == mStates[i - 1]
            after == mStates[i]
            move == after.lastMove
        IN /\ (after.enPassantSquare # SQUARE_NONE) <=> isDoublePush(before, move)
           /\ isDoublePush(before, move)
                => /\ 2 * after.enPassantSquare = move.from + move.to
                   /\ move.to \in getBb2(after, sideToMove(before), PAWN)
           /\ enPassantPlaced(after)

\* a null move has just cleared the en-passant square of the position before it
C15_NullMoveCleared ==
    /\ lastOp = "null"
    /\ mStates[Len(mStates) - 1].enPassantSquare # SQUARE_NONE
    /\ cur.enPassantSquare = SQUARE_NONE

\* a double push has just set the en-passant square
C15_Witness ==
    /\ lastOp = "make"
    /\ cur.lastMove.flag = PAWN_TWO_UP_FLAG
    /\ cur.enPassantSquare # SQUARE_NONE

\* the pieces of side that stand in occ and attack square through occ
exchangeAttackers(s, side, square, occ) ==
    {sq \in (getBbColor(s, side) \cap occ) \ {square} :
        LET pt == pieceTypeAt(s, sq) IN
        CASE pt = PAWN -> square \in pawnAttacks(sq, side)
          [] pt = KNIGHT -> square \in knightAttacks(sq)
          [] pt = BISHOP -> square \in bishopAttacks(sq, occ)
          [] pt = ROOK -> square \in rookAttacks(sq, occ)
          [] pt = QUEEN -> square \in bishopAttacks(sq, occ) \cup rookAttacks(sq, occ)
          [] OTHER -> square \in kingAttacks(sq)}

\* what side can still win on square, where a piece worth victimValue stands:
\* it stops, or recaptures with its least valuable attacker (the king only
\* when nothing defends the square) and the other side answers in kind
RECURSIVE exchange(_, _, _, _, _)
exchange(s, square, occ, side, victimValue) ==
    LET att == exchangeAttackers(s, side, square, occ) IN
    IF att = {} THEN 0
    ELSE LET pt == lsb({pieceTypeAt(s, sq) : sq \in att})
             from == lsb({sq \in att : pieceTypeAt(s, sq) = pt})
             occ1 == occ \ {from}
         IN IF pt = KING /\ exchangeAttackers(s, oppColor(side), square, occ1) # {}
            THEN 0
            ELSE Max(0, victimValue
                        - exchange(s, square, occ1, oppColor(side), SEE_PIECE_VALUES[pt]))

\* the value of the exchange that move starts on its destination square
SEE_value(s, move) ==
    LET promotion == MovePromotion(move)
        victim == IF move.flag = EN_PASSANT_FLAG
                  THEN {IF sideToMove(s) = WHITE THEN move.to - 8 ELSE move.to + 8}
                  ELSE {}
        occ == ((occupancy(s) \ {move.from}) \ victim) \cup {move.to}
        gain == SEE_PIECE_VALUES[capturedPiece(s, move)]
                + (IF promotion # NONE
                   THEN SEE_PIECE_VALUES[promotion] - SEE_PIECE_VALUES[PAWN] ELSE 0)
        standing == IF promotion # NONE THEN promotion ELSE MovePieceType(move)
    IN gain - exchange(s, move.to, occ, oppSide(s), SEE_PIECE_VALUES[standing])

SeeThresholds == {0 - 400, 0 - 100, 0, 1, 100, 101, 200, 500}

\* the legal captures and promotions of s
noisyMoves(s) == {m \in legalMoves(s) : isCapture(s, m) \/ MovePromotion(m) # NONE}

\* C16: for every capture or promotion m and every threshold t, SEE(m, t) is
\* true exactly when the exchange on m's destination square, simulated with
\* least-valuable-attacker recaptures, is worth at least t.
C16_SeeMatchesExchange ==
    \A m \in noisyMoves(cur), t \in SeeThresholds :
        SEE(cur, m, t) <=> (SEE_value(cur, m) >= t)

\* the same for every capture or promotion that is not an en-passant capture
C16_SeeMatchesExchangeButEnPassant ==
    \A m \in noisyMoves(cur), t \in SeeThresholds :
        m.flag # EN_PASSANT_FLAG => (SEE(cur, m, t) <=> (SEE_value(cur, m) >= t))
\* perft(board, depth) of perft.hpp: the generated moves are counted one by one
RECURSIVE perft(_, _)
perft(s, depth) ==
    IF depth <= 0 THEN 1
    ELSE LET moves == pseudolegalMoves(s, FALSE, TRUE)
             legal == {i \in 1..Len(moves) : isPseudolegalLegal(s, moves[i], pinned(s))}
             nodes[k \in 0..Len(moves)] ==
                 IF k = 0 THEN 0
                 ELSE nodes[k - 1]
                      + (IF k \in legal
                         THEN (IF depth = 1 THEN 1
                               ELSE perft(makeMoveState(s, moves[k]), depth - 1))
                         ELSE 0)
         IN nodes[Len(moves)]

\* --------------------------------- startup (unnamed/part_002, nnue.hpp)
\* the lengths NET_FILE may have when main() starts, -1 for no file
NetFileLengths == -1..(NET_BYTES + 1)

\* fread(ptr, size, count, file) at offset of a file of length bytes:
\* <<elements stored, new offset>>; a read cut short leaves the file at its end
fread(size, count, length, offset) ==
    LET got == Min(count, (length - offset) \div size)
    IN <<got, IF got = count THEN offset + count * size ELSE length>>

InitStartup ==
    \E length \in NetFileLengths :
        /\ startup = [file |-> length, offset |-> 0, read |-> <<0, 0, 0, 0>>,
                      stdout |-> <<>>, stderr |-> <<>>, exitCode |-> -1, fen |-> <<>>,
                      pc |-> "fopen"]
        /\ mStates = <<>>
        /\ accBoard = BoardFromFenAcc(FEN_KK)
        /\ snaps = <<>>
        /\ lastOp = "startup"
        /\ thread = [mHardMilliseconds |-> I64_MAX, mMaxNodes |-> I64_MAX, mMaxDepth |-> 1,
                     mNodes |-> 0, mMaxPlyReached |-> 0, mPvLine |-> [p \in 0..0 |-> <<>>]]
        /\ sSearchStopped = FALSE
        /\ driver = [pc |-> "idle", iterationDepth |-> 1, moveBefore |-> MOVE_NONE,
                     iterationScore |-> 0, score |-> 0]
        /\ frames = <<>>
        /\ stopResult = FALSE
        /\ ghost = [uciWrote |-> FALSE, completed |-> 0, accepted |-> MOVE_NONE]

restOfMain == <<accBoard, snaps, lastOp, thread, sSearchStopped, driver,
                frames, stopResult, ghost>>

\* nnue.hpp lines 31-32: fopen(NET_FILE, "rb") and the test of its result
Fopen ==
    /\ startup.pc = "fopen"
    /\ startup' = [startup EXCEPT !.pc = IF startup.file >= 0 THEN "fread1" ELSE "cout"]
    /\ UNCHANGED <<mStates, restOfMain>>

\* the k-th fread of lines 34-37; its return value is not looked at
FreadArray(k) ==
    LET r == fread(NN_SIZES[k], NN_COUNTS[k], startup.file, startup.offset)
    IN /\ startup' = [startup EXCEPT !.read[k] = r[1], !.offset = r[2],
                                     !.pc = <<"fread2", "fread3", "fread4", "fclose">>[k]]
       /\ UNCHANGED <<mStates, restOfMain>>

FreadFeatureWeights == startup.pc = "fread1" /\ FreadArray(1)
FreadFeatureBiases == startup.pc = "fread2" /\ FreadArray(2)
FreadOutputWeights == startup.pc = "fread3" /\ FreadArray(3)
FreadOutputBias == startup.pc = "fread4" /\ FreadArray(4)

\* line 38, then the rest of main(): initTT, initLmrTable, Board(START_FEN), uciLoop
FcloseAndUciLoop ==
    /\ startup.pc = "fclose"
    /\ startup' = [startup EXCEPT !.pc = "uciLoop"]
    /\ mStates' = <<START_POSITION>>
    /\ UNCHANGED restOfMain

\* the inputs of the position command: well-formed and malformed FENs
\* 7k/8/8/8/8/8/8/K6x w - - 0 1
FEN_BAD_PIECE ==
    <<"7", "k", "/", "8", "/", "8", "/", "8", "/", "8", "/", "8", "/", "8", "/", "K", "6", "x", " ", "w", " ", "-", " ", "-", " ", "0", " ", "1">>
\* 4k3/8/8/8/8/8/8/4K3 w x - 0 1
FEN_BAD_CASTLING ==
    <<"4", "k", "3", "/", "8", "/", "8", "/", "8", "/", "8", "/", "8", "/", "8", "/", "4", "K", "3", " ", "w", " ", "x", " ", "-", " ", "0", " ", "1">>
\* 7k/8/8/8/8/8/ppppppppp/K7 w - - 0 1
FEN_LONG_RANK ==
    <<"7", "k", "/", "8", "/", "8", "/", "8", "/", "8", "/", "8", "/", "p", "p", "p", "p", "p", "p", "p", "p", "p", "/", "K", "7", " ", "w", " ", "-", " ", "-", " ", "0", " ", "1">>
\* 7k/8/8/8/8/8/8/K7 w
FEN_TWO_FIELDS ==
    <<"7", "k", "/", "8", "/", "8", "/", "8", "/", "8", "/", "8", "/", "8", "/", "K", "7", " ", "w">>
FenInputs == {FEN_KK, FEN_CASTLE, FEN_BAD_PIECE, FEN_BAD_CASTLING, FEN_LONG_RANK, FEN_TWO_FIELDS}

\* a position command in uciLoop(): board = Board(fen). With fewer than four
\* fields the constructor reads fenSplit past its end: the process dies, or the
\* constructor goes on with what it finds there (here "-")
PositionFen ==
    /\ startup.pc \in {"uciLoop", "positioned"}
    /\ \E f \in FenInputs :
         IF Len(splitString(f, " ")) >= 4
         THEN /\ mStates' = <<BoardFromFen(f)>>
              /\ startup' = [startup EXCEPT !.fen = f, !.pc = "positioned"]
         ELSE \/ /\ startup' = [startup EXCEPT !.fen = f, !.pc = "crashed"]
                 /\ UNCHANGED mStates
              \/ /\ mStates' = <<BoardFromFen(f \o <<" ", "-", " ", "-">>)>>
                 /\ startup' = [startup EXCEPT !.fen = f, !.pc = "positioned"]
    /\ UNCHANGED restOfMain

\* line 42: cout << "Error opening net file " << NET_FILE << endl
CoutError ==
    /\ startup.pc = "cout"
    /\ startup' = [startup EXCEPT !.stdout = Append(@, "Error opening net file"),
                                  !.pc = "exit"]
    /\ UNCHANGED <<mStates, restOfMain>>

\* line 43: exit(0)
Exit ==
    /\ startup.pc = "exit"
    /\ startup' = [startup EXCEPT !.exitCode = 0, !.pc = "exited"]
    /\ UNCHANGED <<mStates, restOfMain>>

NextStartup ==
    \/ Fopen
    \/ FreadFeatureWeights
    \/ FreadFeatureBiases
    \/ FreadOutputWeights
    \/ FreadOutputBias
    \/ FcloseAndUciLoop
    \/ PositionFen
    \/ CoutError
    \/ Exit

SpecStartup == InitStartup /\ [][NextStartup]_vars

\* NET_FILE is missing or shorter than struct NN
netFileBad == startup.file < NET_BYTES

\* C18: when the weights file is missing or shorter than the network layout,
\* loadNetFromFile reports on stderr and ends the process with a nonzero exit
\* code; main never goes on with partly loaded weights.
C18_BadNetFileIsFatal ==
    netFileBad
    => /\ startup.pc # "uciLoop"
       /\ startup.pc = "exited" => (startup.exitCode > 0 /\ startup.stderr # <<>>)

\* main never goes on with an array of nn partly read
C18_NoPartlyLoadedNet == startup.pc = "uciLoop" => startup.read = NN_COUNTS

\* a process that has ended over a missing file has ended with a nonzero code
C18_MissingFileExitsNonzero ==
    (startup.file < 0 /\ startup.pc = "exited") => startup.exitCode > 0
\* the piece-placement field describes more than eight files in some rank
RECURSIVE rankTooLong(_, _, _)
rankTooLong(fenRows, i, files) ==
    IF files > 8 THEN TRUE
    ELSE IF i > Len(fenRows) THEN FALSE
    ELSE IF fenRows[i] = "/" THEN rankTooLong(fenRows, i + 1, 0)
    ELSE IF isdigit(fenRows[i]) THEN rankTooLong(fenRows, i + 1, files + charToInt(fenRows[i]))
    ELSE rankTooLong(fenRows, i + 1, files + 1)

\* fenStr is malformed: fewer than four fields, an unknown piece letter, a rank
\* of more than eight files, or a castling letter outside KQkq
malformedFen(fenStr) ==
    LET fenSplit == splitString(fenStr, " ") IN
    \/ Len(fenSplit) < 4
    \/ \E i \in 1..Len(fenSplit[1]) :
          LET ch == fenSplit[1][i]
          IN ch # "/" /\ ~isdigit(ch) /\ toupper(ch) \notin UpperChars
    \/ rankTooLong(fenSplit[1], 1, 0)
    \/ /\ fenSplit[3] # <<"-">>
       /\ \E i \in 1..Len(fenSplit[3]) : fenSplit[3][i] \notin {"K", "Q", "k", "q"}

\* C19: a Board constructed from a malformed FEN is rejected with an explicit
\* failure: no Board comes out of it, and the process does not die over it.
C19_MalformedFenRejected ==
    malformedFen(startup.fen) => startup.pc \notin {"positioned", "crashed"}

\* the Board of an unknown piece letter: the letter has become a king
C19_InventedKing ==
    ~(startup.pc = "positioned" /\ startup.fen = FEN_BAD_PIECE
      /\ Cardinality(getBb(mStates[1], KING)) = 3)
\* the sum of f over the finite set S
RECURSIVE SumOver(_, _)
SumOver(S, f) ==
    IF S = {} THEN 0
    ELSE LET x == CHOOSE y \in S : TRUE IN f[x] + SumOver(S \ {x}, f)

\* the pieces of s as <<color, piece type, square>>
piecesOf(s) ==
    UNION {{<<c, pt, sq>> : sq \in (s.piecesBitboards[pt] \cap s.colorBitboard[c])}
           : <<c, pt>> \in Colors \X PieceTypes}

\* the accumulator of s from scratch: the feature biases plus the feature
\* column of every piece on the board, in int16_t
accumulatorFromScratch(s) ==
    LET pieces == piecesOf(s)
        whiteColumn(i) == [x \in pieces |-> featureWeights(whiteIdx(x[1], x[2], x[3]), i)]
        blackColumn(i) == [x \in pieces |-> featureWeights(blackIdx(x[1], x[2], x[3]), i)]
    IN [white |-> [i \in Hidden |-> WrapI16(featureBiases(i) + SumOver(pieces, whiteColumn(i)))],
        black |-> [i \in Hidden |-> WrapI16(featureBiases(i) + SumOver(pieces, blackColumn(i)))]]

\* C20: after any sequence of makeMove (rejected moves and the null move
\* included) and undoMove, the top accumulator of the Board with accumulators
\* equals the accumulator built from scratch for its current position, in both
\* perspectives.
C20_AccumulatorFromScratch ==
    accBoard.accumulators[Len(accBoard.accumulators)]
        = accumulatorFromScratch(accBoard.states[Len(accBoard.states)])

\* a generated move has just been rejected as illegal, after moves and a null
\* move were made on the same Board
C20_Witness ==
    /\ lastOp = "rejected"
    /\ Len(accBoard.accumulators) >= 2
    /\ Len(accBoard.accumulators) < Len(accBoard.states)

\* C21: once stopSearch() has returned true, every later call returns true,
\* and while an activation of search or qSearch is on the stack no activation
\* is entered, no bestScore, alpha or mPvLine changes, and an activation that
\* returns hands 0 to its caller.
C21_StoppedSearchUnwinds ==
    [][stopResult =>
         /\ stopResult'
         /\ frames # <<>> =>
              /\ Len(frames') <= Len(frames)
              /\ thread'.mPvLine = thread.mPvLine
              /\ \A i \in 1..Len(frames') :
                    /\ frames'[i].alpha = frames[i].alpha
                    /\ frames'[i].bestScore = frames[i].bestScore
              /\ Len(frames') < Len(frames) =>
                    IF frames' = <<>> THEN driver'.iterationScore = 0
                    ELSE frames'[Len(frames')].score = 0]_vars

\* a child has returned under a stop, and its caller is about to ask
\* stopSearch() again
C21_Witness ==
    /\ stopResult
    /\ frames # <<>>
    /\ top.pc \in {"stop220", "stop283"}

\* sSearchStopped has not been set to true since search() was entered: the UCI
\* thread has not written it and no stopSearch() call has set it and returned true
flagNeverSet == ~ghost.uciWrote /\ ~stopResult

\* search() returns; the activations on the stack never outnumber mMaxDepth + 1;
\* a search in which the flag was never set leaves its loop with iteration
\* mMaxDepth finished
searchTerminates ==
    /\ <>searchReturned
    /\ [](Len(frames) <= thread.mMaxDepth + 1)
    /\ []((driver.pc = "return" /\ flagNeverSet) => ghost.completed = thread.mMaxDepth)

\* C22 as stated: every search terminates, and once the stop flag is set the
\* worker makes no further move on the board.
C22_NoMoveOnceFlagSet ==
    /\ searchTerminates
    /\ [][sSearchStopped => Len(mStates') <= Len(mStates)]_vars

\* C22 amended: every search terminates, and once a stopSearch() call has
\* returned true the worker makes no further move on the board.
C22_NoMoveOnceStopSeen ==
    /\ searchTerminates
    /\ [][stopResult => Len(mStates') <= Len(mStates)]_vars

\* a search has returned after a stopSearch() call returned true with moves
\* made on the board
C22_Witness ==
    /\ searchReturned
    /\ stopResult
    /\ thread.mNodes >= 2

\* a search in which the flag was never set is about to return
C22_WitnessUnstopped ==
    /\ driver.pc = "return"
    /\ flagNeverSet
    /\ thread.mMaxDepth >= 2

\* ------------------------------------------------ a long game (board.hpp)
\* makeMove calls in a row in the game of shuffling kings
LongGamePlies == 256
\* the squares the two kings shuffle between: a1, a2, h7, h8
ShuffleSquares == {0, 8, 55, 63}

\* "position fen 7k/8/8/8/8/8/8/K7 w - - 0 1 moves ..."
InitLongGame ==
    /\ mStates = <<BoardFromFen(FEN_KK)>>
    /\ accBoard = BoardFromFenAcc(FEN_KK)
    /\ snaps = <<SnapshotOf(<<BoardFromFen(FEN_KK)>>, BoardFromFenAcc(FEN_KK))>>
    /\ lastOp = "fen"
    /\ NoSearch

\* makeMove of the next king move of the game
LongGameMove ==
    /\ Len(mStates) <= LongGamePlies
    /\ \E m \in legalMoves(cur) :
          /\ m.to \in ShuffleSquares
          /\ mStates' = makeMove(mStates, m)
    /\ lastOp' = "make"
    /\ UNCHANGED <<accBoard, snaps, searchVars>>

\* makeMove(MOVE_NONE), tried in the last plies of the game
LongGameNullMove ==
    /\ Len(mStates) <= LongGamePlies
    /\ Len(mStates) >= LongGamePlies - 2
    /\ ~inCheck(cur)
    /\ mStates' = makeMove(mStates, MOVE_NONE)
    /\ lastOp' = "null"
    /\ UNCHANGED <<accBoard, snaps, searchVars>>

NextLongGame == LongGameMove \/ LongGameNullMove

SpecLongGame == InitLongGame /\ [][NextLongGame]_vars

\* C23: after makeMove, pliesSincePawnOrCapture is 0 when the move was a pawn
\* move or a capture and otherwise the previous value plus one, however many
\* reversible plies (null moves included) came before.
C23_PliesSincePawnOrCaptureCounts ==
    [][Len(mStates') = Len(mStates) + 1 =>
         LET after == mStates'[Len(mStates')] IN
         after.pliesSincePawnOrCapture =
             IF \/ popcount(occupancy(after)) < popcount(occupancy(cur))
                \/ getBb(after, PAWN) # getBb(cur, PAWN)
             THEN 0
             ELSE cur.pliesSincePawnOrCapture + 1]_vars

\* C24: with noisyOnly the generator emits only en-passant captures,
\* promotions and moves onto an enemy piece; without underpromotions it emits no
\* knight, bishop or rook promotion; the default output contains both.
C24_NoisyAndPromotionFilters ==
    LET all == Range(pseudolegalMoves(cur, FALSE, TRUE))
        noisy == Range(pseudolegalMoves(cur, TRUE, TRUE))
        queening == Range(pseudolegalMoves(cur, FALSE, FALSE))
    IN /\ \A m \in noisy :
            /\ \/ m.flag = EN_PASSANT_FLAG
               \/ MovePromotion(m) # NONE
               \/ m.to \in them(cur)
            /\ m.flag # CASTLING_FLAG
       /\ \A m \in queening : MovePromotion(m) \notin {KNIGHT, BISHOP, ROOK}
       /\ noisy \subseteq all
       /\ queening \subseteq all

\* a pawn can promote by a push and by a capture, and another pawn can be pushed
C24_Witness ==
    LET all == Range(pseudolegalMoves(cur, FALSE, TRUE))
        noisy == Range(pseudolegalMoves(cur, TRUE, TRUE))
        queening == Range(pseudolegalMoves(cur, FALSE, FALSE))
    IN /\ \E m \in noisy : MovePromotion(m) = QUEEN /\ m.to \notin them(cur)
       /\ \E m \in noisy : MovePromotion(m) = KNIGHT /\ m.to \in them(cur)
       /\ \E m \in all \ noisy : m.flag = PAWN_TWO_UP_FLAG
       /\ \E m \in all \ queening : MovePromotion(m) = ROOK

\* C25: uciToMove applied to the UCI string of a generated move gives back the
\* move, with its from square, its to square and its flag.
C25_UciToMoveRoundTrip ==
    \A m \in Range(pseudolegalMoves(cur, FALSE, TRUE)) : uciToMove(cur, toUci(m)) = m

\* an en-passant capture is among the generated moves
C25_Witness ==
    \E m \in Range(pseudolegalMoves(cur, FALSE, TRUE)) :
        /\ m.flag = EN_PASSANT_FLAG
        /\ uciToMove(cur, toUci(m)).flag = EN_PASSANT_FLAG

\* castling, a double push and an underpromotion are read back as well
C25_WitnessCastling ==
    \E m \in Range(pseudolegalMoves(cur, FALSE, TRUE)) : m.flag = CASTLING_FLAG
C25_WitnessTwoUp ==
    \E m \in Range(pseudolegalMoves(cur, FALSE, TRUE)) : m.flag = PAWN_TWO_UP_FLAG
C25_WitnessPromotion ==
    \E m \in Range(pseudolegalMoves(cur, FALSE, TRUE)) : m.flag = ROOK_PROMOTION_FLAG

\* C26: hasLegalMove() is true exactly when some generated move passes
\* isPseudolegalLegal with the pinned() set of the position.
C26_HasLegalMoveIffLegalMoveExists == hasLegalMove(cur) <=> legalMoves(cur) # {}

\* the side to move is stalemated: its only generated move is an en-passant
\* capture that would uncover an attack on its king
C26_Witness ==
    /\ ~hasLegalMove(cur)
    /\ ~inCheck(cur)
    /\ \E m \in Range(pseudolegalMoves(cur, FALSE, TRUE)) : m.flag = EN_PASSANT_FLAG

\* the side to move is checkmated
C26_WitnessMate ==
    /\ ~hasLegalMove(cur)
    /\ inCheck(cur)
    /\ Range(pseudolegalMoves(cur, FALSE, TRUE)) # {}

\* C27: every activation of search and qSearch has 0 <= ply <= mMaxDepth <=
\* MAX_DEPTH, ply > 0 in qSearch, and -INF <= alpha < beta <= INF when it is
\* entered; an activation that makes moves has ply + 1 <= MAX_DEPTH, the entry
\* of mPliesData that makeMove resets.
C27_EntryAssertions ==
    /\ thread.mMaxDepth >= 1
    /\ thread.mMaxDepth <= MAX_DEPTH
    /\ DOMAIN thread.mPvLine = 0..MAX_DEPTH
    /\ \A i \in 1..Len(frames) :
          LET f == frames[i] IN
          /\ f.ply >= 0
          /\ f.ply <= thread.mMaxDepth
          /\ f.fn = "qSearch" => f.ply > 0
          /\ f.pc \in {"stop187", "stop251"} =>
                /\ 0 - INF <= f.alpha
                /\ f.alpha < f.beta
                /\ f.beta <= INF
          /\ f.pc \in {"loop", "qloop", "ret216", "ret279"} => f.ply + 1 \in DOMAIN thread.mPvLine

\* qSearch is entered at ply mMaxDepth = MAX_DEPTH with a window its caller narrowed
C27_Witness ==
    /\ frames # <<>>
    /\ top.fn = "qSearch"
    /\ top.pc = "stop251"
    /\ top.ply = MAX_DEPTH
    /\ top.beta < INF

\* C28: the history of the worker's board is longer than the caller's by one
\* state for each activation that has made a move and waits for its child;
\* whenever no activation is on the stack, and so when search() has returned,
\* the worker's board has the history length and the current state of the
\* caller's Board, which search() only copies.
C28_MakeUndoBalanced ==
    /\ Len(snaps) = 1
    /\ mStates[1] = snaps[1].state
    /\ Len(mStates) = snaps[1].size
                      + Cardinality({i \in 1..Len(frames) : frames[i].pc \in {"ret216", "ret279"}})
    /\ frames = <<>> => (Len(mStates) = snaps[1].size /\ cur = snaps[1].state)

\* search() has returned after a stop that was seen two plies below the root
C28_Witness ==
    /\ searchReturned
    /\ stopResult
    /\ thread.mMaxPlyReached >= 2
    /\ cur = snaps[1].state

\* search() has returned after a beta cutoff
C28_WitnessUnstopped ==
    /\ searchReturned
    /\ ~stopResult
    /\ thread.mNodes >= 3

\* C29: makeMove(move, true) of the Board with accumulators returns false on a
\* generated move that leaves the mover's king attacked, with the history, the
\* accumulator stack and the current state as before the call; on any other
\* generated move it returns true with one state and one accumulator pushed,
\* and on the null move with one state and no accumulator pushed.
C29_VerifiedMakeMove ==
    LET ms == Range(pseudolegalMoves(cur, FALSE, TRUE))
        moves == IF inCheck(cur) THEN ms ELSE ms \cup {MOVE_NONE}
    IN \A m \in moves :
          LET r == makeMoveAcc(accBoard, m, TRUE) IN
          IF m # MOVE_NONE /\ kingAttackedAfter(cur, m)
          THEN /\ ~r.ok
               /\ r.board = accBoard
          ELSE /\ r.ok
               /\ Len(r.board.states) = Len(accBoard.states) + 1
               /\ SubSeq(r.board.states, 1, Len(accBoard.states)) = accBoard.states
               /\ Len(r.board.accumulators)
                    = Len(accBoard.accumulators) + (IF m = MOVE_NONE THEN 0 ELSE 1)
               /\ SubSeq(r.board.accumulators, 1, Len(accBoard.accumulators))
                    = accBoard.accumulators

\* a generated move has just been rejected on a Board that holds several states
\* and accumulators, and another generated move would be accepted
C29_Witness ==
    /\ lastOp = "rejected"
    /\ Len(accBoard.states) >= 2
    /\ Len(accBoard.accumulators) >= 2
    /\ \E m \in Range(pseudolegalMoves(cur, FALSE, TRUE)) : makeMoveAcc(accBoard, m, TRUE).ok

\* the moves zobristHashAfter is asked about: the generated moves, and the
\* null move when the side to move is not in check
hashedMoves ==
    Range(pseudolegalMoves(cur, FALSE, TRUE)) \cup (IF inCheck(cur) THEN {} ELSE {MOVE_NONE})

\* the Zobrist hash of the Board with accumulators after makeMove(move)
hashAfterMakeMove(move) ==
    LET after == makeMoveAcc(accBoard, move, FALSE).board
    IN after.states[Len(after.states)].zobristHash

\* C30: for every generated move and for MOVE_NONE, zobristHashAfter(m) is the
\* Zobrist hash the Board has after makeMove(m).
C30_ZobristHashAfter ==
    \A m \in hashedMoves :
        zobristHashAfter(accBoard.states[Len(accBoard.states)], m) = hashAfterMakeMove(m)

\* the same for the moves that leave the castling rights as they are
C30_ZobristHashAfterSameRights ==
    \A m \in hashedMoves :
        LET after == makeMoveAcc(accBoard, m, FALSE).board IN
        after.states[Len(after.states)].castlingRights
            = accBoard.states[Len(accBoard.states)].castlingRights
        => zobristHashAfter(accBoard.states[Len(accBoard.states)], m) = hashAfterMakeMove(m)

====
